---- MODULE Spec2Model ----
(***************************************************************************)
(* A state-machine model of the network synchronizer: the client's         *)
(* reconciliation loop (ClientSynchronizer) and the server's sync groups   *)
(* and snapshot notificator (ServerSynchronizer), as implemented in        *)
(* scene_synchronizer.cpp.                                                 *)
(***************************************************************************)
EXTENDS Integers, Sequences, FiniteSets, TLC

\* ------------------------------------------------------------------ bounds
\* The largest input id a player controller produces in a run.
MaxInputId == 4
\* The largest number of sub ticks of one client process().
MaxSubTicks == 2
\* The largest number of listeners track_variables_changes registers.
MaxListeners == 1
\* The epochs of the deferred sync packets are 0 .. MaxEpoch.
MaxEpoch == 6
\* The configured player_input_storage_size (180 by default).
PlayerInputStorageSize == 3
\* The synchronized variable `v` takes the values 0 .. MaxVal.
MaxVal == 1
\* The peers that may connect to the server are 2 .. MaxPeers + 1.
MaxPeers == 1
\* The most sync groups the server holds, the global one included.
MaxGroups == 2
\* The application objects are 1 .. MaxObjects.
MaxObjects == 2
\* server_notify_state_interval, in process ticks.
NotifyIntervalTicks == 2

\* --------------------------------------------------------------- constants
\* The "no input id" sentinel.  TLC's integers are 32 bits signed, so the
\* largest of them stands for the largest uint32_t: the code only compares
\* it for equality and needs it greater than every input id.
UINT32_MAX == 2147483647
\* A snapshot entry whose variable name is empty: the variable is not set.
NoVal == -1
ObjectNetId_NONE == UINT32_MAX
GLOBAL_SYNC_GROUP_ID == 0

Values == 0 .. MaxVal
\* The skip_rewinding variable `w` is a flag.
WValues == 0 .. 1

SYNC_RECOVER == "SYNC_RECOVER"
SYNC_RESET == "SYNC_RESET"
SYNC_REWIND == "SYNC_REWIND"
CHANGE == "CHANGE"
END_SYNC == "END_SYNC"
\* NetEventFlag::SYNC: the three classes of a value written while syncing.
SYNC == {SYNC_RECOVER, SYNC_RESET, SYNC_REWIND}

VARIABLES
    \* ---- client (ClientSynchronizer and its PlayerController)
    player_controller_node_data, \* TRUE iff the pointer is not null
    input_buffers_counter,       \* PlayerController: the next input id
    current_input_id,            \* PlayerController: the id being processed
    frames_snapshot,             \* PlayerController: ids of the stored frames
    val_v,                       \* the object's variable v (rewound)
    val_w,                       \* the object's variable w (skip_rewinding)
    client_snapshots,
    server_snapshots,
    last_checked_input,
    changes_listeners,           \* SceneSynchronizerBase::changes_listeners
    event_flag,                  \* SceneSynchronizerBase::event_flag
    recover_in_progress,         \* SceneSynchronizerBase: is_recovered()
    reset_in_progress,           \* SceneSynchronizerBase: is_resetted()
    rewinding_in_progress,       \* SceneSynchronizerBase: is_rewinding()
    end_sync,                    \* SceneSynchronizerBase: is_end_sync()
    sync_end_events,             \* variable id -> value before the sync
    deferred_sync_array,         \* ClientSynchronizer::deferred_sync_array
    real_t_is_double,            \* the build's real_t: double, or float
    \* ---- server (SceneSynchronizerBase and its ServerSynchronizer)
    peer_data,                   \* connected peer -> PeerData
    sync_groups,                 \* ServerSynchronizer::sync_groups
    objects,                     \* the registered application objects
    crashed,                     \* the process has aborted
    sent,                        \* peer -> snapshot sent by the last process
    prev_call,                   \* the operation the last process followed
    controllers,                 \* object with a controller -> its controller
    peer_dirty,                  \* SceneSynchronizerBase::peer_dirty
    \* ---- registry (SceneSynchronizerBase and one ObjectData)
    synchronizer_type,           \* "NONETWORK", "SERVER" or "CLIENT"
    generate_id,                 \* SceneSynchronizerBase::generate_id
    od_vars,                     \* ObjectData::vars, the VarDescriptor slots
    host,                        \* the application object's variables
    od_change,                   \* the global group's Change of the object
    object_record,               \* the object's record in the last snapshot
    pulled,                      \* the slots the last process read from host
    \* ---- receiver (a ClientSynchronizer without a player controller)
    scene,                       \* the names the host can resolve to objects
    c_objects,                   \* the client's ObjectData, by object name
    objects_names,               \* ClientSynchronizer::objects_names
    last_received_snapshot,
    enabled,
    want_to_enable,
    need_full_snapshot_notified,
    emitted,                     \* ChangesListener::emitted of the listener
    rx,                          \* what the last receive_snapshot was given
    pair,                        \* two snapshots in a row, and the second alone
    \* ---- observation
    log,                         \* events emitted by the last operation
    recon,                       \* what the last reconciliation compared
    max_validated,               \* the largest id ever validated, or -1
    max_validated_here,          \* the same, since the controller was set
    listener_log,                \* the change batches of the last operation
    flag_log,                    \* the four flags, as the last operation saw them
    epoch_calls,                 \* the apply_epoch calls of the last operation
    last_call                    \* the last operation and its arguments

client_vars ==
    <<player_controller_node_data, input_buffers_counter, current_input_id,
      frames_snapshot, val_v, val_w, client_snapshots, server_snapshots,
      last_checked_input, changes_listeners, event_flag, recover_in_progress, reset_in_progress,
      rewinding_in_progress, end_sync, sync_end_events,
      deferred_sync_array, real_t_is_double>>

server_vars ==
    <<peer_data, sync_groups, objects, crashed, sent, prev_call, controllers,
      peer_dirty>>

registry_vars ==
    <<synchronizer_type, generate_id, od_vars, host, od_change,
      object_record, pulled>>

receiver_vars ==
    <<scene, c_objects, objects_names, last_received_snapshot, enabled,
      want_to_enable, need_full_snapshot_notified, emitted, rx>>

obs_vars ==
    <<log, recon, max_validated, max_validated_here, listener_log, flag_log,
      epoch_calls, last_call>>

\* ---------------------------------------------------------------- helpers
Snap(id, v, w) == [input_id |-> id, v |-> v, w |-> w]

Event(e, a, b, c, flag) == [e |-> e, a |-> a, b |-> b, c |-> c, flag |-> flag]

NoRecon == [kind |-> "none", k |-> UINT32_MAX, frames |-> <<>>,
            server |-> Snap(UINT32_MAX, NoVal, NoVal),
            client |-> Snap(UINT32_MAX, NoVal, NoVal)]

\* The process callback registered on the object: it advances v.
Step(v) == (v + 1) % (MaxVal + 1)

DropFront_keep(q, k) == q

RECURSIVE DropFront(_, _)
\* while (q.front().input_id < k) q.pop_front();
DropFront(q, k) ==
    IF q # <<>> /\ q[1].input_id < k THEN DropFront(Tail(q), k) ELSE q

\* PlayerController::notify_input_checked: the frames with id <= k are dropped.
RECURSIVE NotifyInputChecked(_, _)
NotifyInputChecked(frames, k) ==
    IF frames # <<>> /\ frames[1] <= k
    THEN NotifyInputChecked(Tail(frames), k)
    ELSE frames

\* The nested search of process_received_server_state: the server queue is
\* walked from its back, the client queue from its front; the first server
\* snapshot whose id is also a client snapshot's gives the id.
RECURSIVE FindCheckable(_, _, _)
FindCheckable(server, client, i) ==
    IF i = 0 THEN UINT32_MAX
    ELSE IF \E j \in 1 .. Len(client) : client[j].input_id = server[i].input_id
         THEN server[i].input_id
         ELSE FindCheckable(server, client, i - 1)

\* Snapshot::compare: a variable the server snapshot does not set is not
\* compared; a difference in v is a divergence, a difference in w
\* (skip_rewinding) goes to the no-rewind recovery snapshot, whose input_id
\* is then 0.
CompareIsEqual(s, c) == s.v = NoVal \/ s.v = c.v

NoRewindRecover(s, c) ==
    IF s.w # NoVal /\ s.w # c.w
    THEN Snap(0, NoVal, s.w)
    ELSE Snap(UINT32_MAX, NoVal, NoVal)

\* ------------------------------------------------- client: change batches
\* An entry of the record of the change batches: "begin" (flag), "add"
\* (a the variable id, b the old value, flag the batch's), "call" (a the
\* index of the listener, b the old values it is given, flag the batch's)
\* and "flush" (a and b the values of v and w at that time).
LEvent(e, a, b, flag) == [e |-> e, a |-> a, b |-> b, flag |-> flag]

\* F of the value of x, x being computed once.
With(x, F(_)) == CHOOSE y \in {F(s) : s \in {x}} : TRUE

\* A ChangesListener track_variables_changes makes: nothing to emit.
NewListener(watching_vars, flag) ==
    [flag |-> flag,
     watching_vars |-> watching_vars,
     old_values |-> [v \in DOMAIN watching_vars |-> NoVal],
     old_set |-> [v \in DOMAIN watching_vars |-> FALSE],
     emitted |-> TRUE]

\* The current value of the variable of id 0 (v) or 1 (w).
CurrentValue(st, var_id) == IF var_id = 0 THEN st.v ELSE st.w

\* What is_recovered, is_resetted, is_rewinding and is_end_sync answer in
\* the state st, at the point e of the operation.
FlagEvent(e, st) ==
    [e |-> e,
     recover_in_progress |-> st.recover_in_progress,
     reset_in_progress |-> st.reset_in_progress,
     rewinding_in_progress |-> st.rewinding_in_progress,
     end_sync |-> st.end_sync]

ChangeEventsBegin_no_recover(st, p_flag) ==
    [st EXCEPT !.event_flag = p_flag,
               !.reset_in_progress = SYNC_RESET \in p_flag,
               !.rewinding_in_progress = SYNC_REWIND \in p_flag,
               !.end_sync = END_SYNC \in p_flag,
               !.llog = Append(@, LEvent("begin", 0, 0, p_flag)),
               !.flog = Append(@, FlagEvent("begin", st))]

\* change_events_begin: the four flags are what the CRASH_CONDs of a debug
\* build test on entry; then they take the bits of p_flag.
ChangeEventsBegin(st, p_flag) ==
    [st EXCEPT !.event_flag = p_flag,
               !.recover_in_progress = p_flag \cap SYNC # {},
               !.reset_in_progress = SYNC_RESET \in p_flag,
               !.rewinding_in_progress = SYNC_REWIND \in p_flag,
               !.end_sync = END_SYNC \in p_flag,
               !.llog = Append(@, LEvent("begin", 0, 0, p_flag)),
               !.flog = Append(@, FlagEvent("begin", st))]

Watches(listener, var_id) ==
    \E v \in DOMAIN listener.watching_vars :
      listener.watching_vars[v] = var_id

ListenerOnAdd_any_flag(listener, var_id, p_old, flag) ==
    IF ~Watches(listener, var_id) THEN listener
    ELSE [listener EXCEPT !.emitted = FALSE]

\* change_event_add for one listener of the variable: a listener whose
\* flag has nothing of the batch's is skipped; otherwise it is to emit and
\* the old value goes to the slots of the variable.  old_set is set on
\* the copy `wv` the loop makes of the watched variable, so the listener's
\* own old_set stays false.
ListenerOnAdd(listener, var_id, p_old, flag) ==
    IF ~Watches(listener, var_id) \/ listener.flag \cap flag = {}
    THEN listener
    ELSE [listener EXCEPT
            !.emitted = FALSE,
            !.old_values =
               [v \in DOMAIN @ |->
                  IF listener.watching_vars[v] = var_id THEN p_old ELSE @[v]]]

\* ClientSynchronizer::on_variable_changed: the variable and its old value
\* are kept for END_SYNC when the batch is a sync one; the set keeps the
\* first entry of a variable.
OnVariableChanged(st, var_id, p_old) ==
    With(st, LAMBDA s :
      IF s.event_flag \cap SYNC # {} /\ var_id \notin DOMAIN s.sync_end
      THEN [s EXCEPT !.sync_end = (var_id :> p_old) @@ @]
      ELSE s)

\* change_event_add.
ChangeEventAdd(st, var_id, p_old) ==
    With(st, LAMBDA s :
      OnVariableChanged(
        [s EXCEPT !.listeners =
                     [i \in DOMAIN @ |->
                        ListenerOnAdd(@[i], var_id, p_old, s.event_flag)],
                  !.llog = Append(@, LEvent("add", var_id, p_old,
                                            s.event_flag))],
        var_id, p_old))

\* change_events_flush for one listener that is to emit: the slots whose
\* old_set is false take the current value.
FlushListener(listener, st) ==
    IF listener.emitted THEN listener
    ELSE [listener EXCEPT
            !.emitted = TRUE,
            !.old_values =
               [v \in DOMAIN @ |->
                  IF ~listener.old_set[v]
                  THEN CurrentValue(st, listener.watching_vars[v])
                  ELSE @[v]],
            !.old_set = [v \in DOMAIN @ |-> FALSE]]

RECURSIVE ListenerCalls(_, _, _)
\* The calls of listener_func change_events_flush makes, from listener i on.
ListenerCalls(st, flushed, i) ==
    IF i > Len(flushed) THEN <<>>
    ELSE (IF st.listeners[i].emitted THEN <<>>
          ELSE <<LEvent("call", i, flushed[i].old_values, st.event_flag)>>)
         \o ListenerCalls(st, flushed, i + 1)

FlushWith_keeps_flags(st, flushed) ==
    With([st EXCEPT
            !.listeners = flushed,
            !.llog = @ \o ListenerCalls(st, flushed, 1)
                       \o <<LEvent("flush", st.v, st.w, st.event_flag)>>],
         LAMBDA s : [s EXCEPT !.flog = Append(@, FlagEvent("flush", s))])

\* The end of change_events_flush: the listeners were called and the four
\* flags are reset.
FlushWith(st, flushed) ==
    With([st EXCEPT
            !.listeners = flushed,
            !.recover_in_progress = FALSE,
            !.reset_in_progress = FALSE,
            !.rewinding_in_progress = FALSE,
            !.end_sync = FALSE,
            !.llog = @ \o ListenerCalls(st, flushed, 1)
                       \o <<LEvent("flush", st.v, st.w, st.event_flag)>>],
         LAMBDA s : [s EXCEPT !.flog = Append(@, FlagEvent("flush", s))])

\* change_events_flush.
ChangeEventsFlush(st) ==
    With(st, LAMBDA s :
      With([i \in DOMAIN s.listeners |-> FlushListener(s.listeners[i], s)],
           LAMBDA flushed : FlushWith(s, flushed)))

\* pull_node_changes of the object, whose v the process callbacks wrote
\* over old_v (w is written by nothing but the snapshots).
PullChangesOfV(st, old_v) ==
    With(st, LAMBDA s :
      IF s.v # old_v THEN ChangeEventAdd(s, 0, old_v) ELSE s)

\* detect_and_signal_changed_variables.
DetectAndSignalChangedVariables(st, old_v, p_flags) ==
    With(st, LAMBDA s :
      ChangeEventsFlush(
        PullChangesOfV(
          IF s.event_flag # p_flags THEN ChangeEventsBegin(s, p_flags)
          ELSE s, old_v)))

\* apply_snapshot's loop for the variable v, then w: a variable the
\* snapshot sets is written; set_variable and the change event follow when
\* the value differs.
ApplyVarV(st, snap, flag) ==
    With(st, LAMBDA s :
      IF snap.v # NoVal /\ snap.v # s.v
      THEN ChangeEventAdd(
             [s EXCEPT !.v = snap.v,
                       !.log = Append(@, Event("set_variable", 0, snap.v, 0,
                                               flag))], 0, s.v)
      ELSE s)

ApplyVarW(st, snap, flag) ==
    With(st, LAMBDA s :
      IF snap.w # NoVal /\ snap.w # s.w
      THEN ChangeEventAdd(
             [s EXCEPT !.w = snap.w,
                       !.log = Append(@, Event("set_variable", 1, snap.w, 0,
                                               flag))], 1, s.w)
      ELSE s)

\* The snapshots have custom data (the manager's snapshot_get_custom_data
\* gives some), which snapshot_set_custom_data receives unless
\* p_skip_custom_data.
ApplyCustomData(st, snap, flag, p_skip_custom_data) ==
    IF p_skip_custom_data THEN st
    ELSE [st EXCEPT !.log = Append(@, Event("snapshot_set_custom_data",
                                            snap.input_id, 0, 0, flag))]

\* apply_snapshot on the state st: one change batch under `flag`.
ApplySnapshot(st, snap, flag, p_skip_custom_data) ==
    ChangeEventsFlush(
      ApplyCustomData(
        ApplyVarW(
          ApplyVarV(
            ChangeEventsBegin(
              [st EXCEPT !.log = Append(@, Event("apply", snap.input_id,
                                                 snap.v, snap.w, flag))],
              flag),
            snap, flag),
          snap, flag),
        snap, flag, p_skip_custom_data))

\* update_client_snapshot: the snapshot takes the current values; its
\* input_id is left alone.
UpdateClientSnapshot(snap, st) == [snap EXCEPT !.v = st.v, !.w = st.w]

\* ------------------------------------------------- client: process_simulation
\* PlayerController::process outside a rewind: a new input, with the next
\* id, is taken and stored when the storage has room
\* (can_accept_new_inputs); otherwise there is no new input.
ControllerProcess(st) ==
    IF Len(st.frames) < PlayerInputStorageSize
    THEN [st EXCEPT !.cur = st.counter,
                    !.counter = @ + 1,
                    !.frames = Append(@, st.counter),
                    !.has_new_input = TRUE]
    ELSE [st EXCEPT !.has_new_input = FALSE]

StoreSnapshot_front(st) ==
    [st EXCEPT !.client = <<Snap(st.cur, st.v, st.w)>> \o @]

\* store_snapshot: a snapshot of the current values, with the controller's
\* current input id, is pushed at the back of client_snapshots.
StoreSnapshot(st) ==
    [st EXCEPT !.client = Append(@, Snap(st.cur, st.v, st.w))]

\* One sub tick: process_functions__execute runs the controller and the
\* object's callback; then store_snapshot if there is a new input.
StoreIfNewInput(st) ==
    IF st.has_new_input THEN StoreSnapshot(st) ELSE st

SubTick(st) ==
    With(st, LAMBDA s :
      With(DetectAndSignalChangedVariables(
             [ControllerProcess(s) EXCEPT
                !.v = Step(@),
                !.flog = Append(@, FlagEvent("process", s))], s.v, {CHANGE}),
           LAMBDA s1 : StoreIfNewInput(s1)))

RECURSIVE ProcessSimulation(_, _)
ProcessSimulation(st, sub_ticks) ==
    IF sub_ticks = 0 THEN st
    ELSE ProcessSimulation(SubTick(st), sub_ticks - 1)

\* --------------------------------------- client: process_received_server_state
\* __pcr__rewind's loop, from index i (0-based) on, n being the number of
\* frames the controller still stores.
RECURSIVE RewindLoop(_, _, _)
RewindUpdateSnapshot(st, i) ==
    IF i + 1 <= Len(st.client)
    THEN [st EXCEPT !.client[i + 1] = UpdateClientSnapshot(@, st)]
    ELSE st

\* One frame of the loop: the batch begins, rewind_frame_begin, the process
\* functions, the changes are pulled and flushed, the snapshot is updated.
RewindFrame(st, i, n) ==
    With(st, LAMBDA s :
      With(DetectAndSignalChangedVariables(
             [ChangeEventsBegin(s, {SYNC_RECOVER, SYNC_REWIND}) EXCEPT
                !.v = Step(@),
                !.flog = Append(@, FlagEvent("replay",
                           ChangeEventsBegin(s, {SYNC_RECOVER, SYNC_REWIND}))),
                !.log = @ \o <<Event("rewind_frame_begin", s.frames[i + 1],
                                     i, n, {SYNC_RECOVER, SYNC_REWIND}),
                               Event("process", Step(s.v), i, n,
                                     {SYNC_RECOVER, SYNC_REWIND})>>],
             s.v, {SYNC_RECOVER, SYNC_REWIND}),
           LAMBDA s1 : RewindUpdateSnapshot(s1, i)))

RewindLoop(st, i, n) ==
    IF i >= n THEN st
    ELSE RewindLoop(RewindFrame(st, i, n), i + 1, n)

\* event_state_validated.broadcast(k): the event, and the player
\* controller's handler of it.
StateValidated(st, k) ==
    [st EXCEPT !.log = Append(@, Event("state_validated", k, 0, 0, {})),
               !.frames = NotifyInputChecked(@, k)]

PcrRewind_recover_only(st, k) ==
    LET st1 == ApplySnapshot(st, st.server[1], {SYNC_RECOVER}, FALSE)
        st2 == StateValidated(st1, k)
    IN RewindLoop(st2, 0, Len(st2.frames))

\* __pcr__sync__rewind then __pcr__rewind.
PcrRewind(st, k) ==
    LET st1 == ApplySnapshot(st, st.server[1], {SYNC_RECOVER, SYNC_RESET},
                             FALSE)
        st2 == StateValidated(st1, k)
    IN RewindLoop(st2, 0, Len(st2.frames))

PcrNoRewind_always_sync(st, k, no_rewind_recover) ==
    StateValidated(ApplySnapshot(st, no_rewind_recover, {SYNC_RECOVER}, TRUE),
                   k)

PcrNoRewind_with_custom_data(st, k, no_rewind_recover) ==
    StateValidated(
      IF no_rewind_recover.input_id = 0
      THEN ApplySnapshot(st, no_rewind_recover, {SYNC_RECOVER}, FALSE)
      ELSE st, k)

\* __pcr__sync__no_rewind (when something is to recover) then __pcr__no_rewind.
PcrNoRewind(st, k, no_rewind_recover) ==
    LET st1 == IF no_rewind_recover.input_id = 0
               THEN LET a == ApplySnapshot(st, no_rewind_recover, {SYNC_RECOVER},
                                           TRUE)
                        n == Len(a.client)
                    IN IF n > 0
                       THEN [a EXCEPT !.client[n] = UpdateClientSnapshot(@, a)]
                       ELSE a
               ELSE st
    IN StateValidated(st1, k)

\* Phases two and three, the id k being found.
Reconcile(st, k) ==
    LET server1 == DropFront(st.server, k)
        client1 == DropFront(st.client, k)
        s == server1[1]
        c == client1[1]
        need_rewind == ~CompareIsEqual(s, c)
        st1 == [st EXCEPT !.server = server1, !.client = Tail(client1),
                          !.recon = [kind |-> "checked", k |-> k,
                                     frames |-> st.frames,
                                     server |-> s, client |-> c]]
        st2 == IF need_rewind THEN PcrRewind(st1, k)
               ELSE PcrNoRewind(st1, k, NoRewindRecover(s, c))
    IN [st2 EXCEPT !.server = Tail(@), !.last_checked = k]

\* process_paused_controller_recovery.
ProcessPausedControllerRecovery(st) ==
    LET newest == st.server[Len(st.server)]
        st1 == ApplySnapshot(st, newest, {SYNC_RECOVER}, FALSE)
    IN [st1 EXCEPT !.server = <<>>,
                   !.recon = [NoRecon EXCEPT !.kind = "paused"]]

ProcessReceivedServerState(st) ==
    IF st.server = <<>> THEN st
    ELSE IF st.server[Len(st.server)].input_id = UINT32_MAX
    THEN LET st1 == ApplySnapshot(st, st.server[Len(st.server)],
                              {SYNC_RECOVER}, FALSE)
         IN [st1 EXCEPT !.server = <<>>, !.client = <<>>,
                        !.recon = [NoRecon EXCEPT !.kind = "no_input"]]
    ELSE IF ~st.player THEN st
    ELSE IF st.client = <<>> THEN ProcessPausedControllerRecovery(st)
    ELSE LET k == FindCheckable(st.server, st.client, Len(st.server))
         IN IF k = UINT32_MAX THEN st ELSE Reconcile(st, k)

StoreControllersSnapshot_queue_all(p_snapshot, storage, has_player) ==
    IF p_snapshot.input_id = UINT32_MAX THEN <<p_snapshot>>
    ELSE IF storage = <<>> THEN <<p_snapshot>>
    ELSE storage

\* store_controllers_snapshot: the parsed snapshot goes to the queue.
StoreControllersSnapshot(p_snapshot, storage, has_player) ==
    IF p_snapshot.input_id = UINT32_MAX /\ has_player THEN storage
    ELSE IF p_snapshot.input_id = UINT32_MAX THEN <<p_snapshot>>
    ELSE IF storage # <<>>
    THEN IF p_snapshot.input_id = storage[Len(storage)].input_id
         THEN [storage EXCEPT ![Len(storage)] = p_snapshot]
         ELSE storage  \* lower id: ERR_FAIL; greater id: nothing is done
    ELSE <<p_snapshot>>

\* parse_snapshot: the received snapshot starts without input id, and the
\* header's id is taken only with a player controller.  sv and sw are the
\* values the parsed snapshot ends with for v and w: what the message
\* carries laid over the copy of the last received snapshot.
ParseSnapshot(has_player, id, sv, sw) ==
    [input_id |-> IF has_player THEN id ELSE UINT32_MAX, v |-> sv, w |-> sw]

SetMax(S) == CHOOSE x \in S : \A y \in S : y <= x

ValidatedIn(events) ==
    {events[i].a : i \in {j \in 1 .. Len(events) : events[j].e = "state_validated"}}

\* The client's state as a tick of ClientSynchronizer::process finds it.
ClientState ==
    [player |-> player_controller_node_data,
     counter |-> input_buffers_counter,
     cur |-> current_input_id,
     frames |-> frames_snapshot,
     has_new_input |-> FALSE,
     v |-> val_v, w |-> val_w,
     client |-> client_snapshots,
     server |-> server_snapshots,
     last_checked |-> last_checked_input,
     listeners |-> changes_listeners,
     event_flag |-> event_flag,
     recover_in_progress |-> recover_in_progress,
     reset_in_progress |-> reset_in_progress,
     rewinding_in_progress |-> rewinding_in_progress,
     end_sync |-> end_sync,
     flog |-> <<>>,
     sync_end |-> sync_end_events,
     llog |-> <<>>,
     log |-> <<>>, recon |-> NoRecon]

\* The state process_simulation leaves to process_received_server_state:
\* without a player controller the changes are fetched and nothing else.
Simulated(sub_ticks) ==
    IF player_controller_node_data
    THEN ProcessSimulation(ClientState, sub_ticks)
    ELSE DetectAndSignalChangedVariables(ClientState, val_v, {CHANGE})

EndSyncAdd_always(st, var_id) ==
    With(st, LAMBDA s :
      IF var_id \in DOMAIN s.sync_end
      THEN ChangeEventAdd(s, var_id, s.sync_end[var_id])
      ELSE s)

\* signal_end_sync_changed_variables_events for the event of the variable
\* v, then w (the set is ordered by variable id): the change is signalled
\* when the value differs from the one before the sync.
EndSyncAdd(st, var_id) ==
    With(st, LAMBDA s :
      IF var_id \in DOMAIN s.sync_end
         /\ CurrentValue(s, var_id) # s.sync_end[var_id]
      THEN ChangeEventAdd(s, var_id, s.sync_end[var_id])
      ELSE s)

EndSyncClear(st) == [st EXCEPT !.sync_end = <<>>]

\* signal_end_sync_changed_variables_events.
SignalEndSync(st) ==
    ChangeEventsFlush(
      EndSyncClear(
        EndSyncAdd(EndSyncAdd(ChangeEventsBegin(st, {END_SYNC}), 0), 1)))

\* ------------------------------------------------- client: deferred sync
\* alpha and alpha_advacing_per_epoch are real_t numbers; alpha is kept as
\* the fraction num / den, den being the number of epochs between the two
\* packets, so that one step adds 1 to num.  den = 0 stands for FLT_MAX.
Alpha(num, den) == [num |-> num, den |-> den]
FLT_MAX == Alpha(1, 0)

\* DeferredSyncInterpolationData(nd): the epochs are UINT32_MAX, alpha is 0
\* and alpha_advacing_per_epoch is 1.
NewStream ==
    [past_epoch |-> UINT32_MAX, future_epoch |-> UINT32_MAX,
     alpha |-> Alpha(0, 1),
     past_epoch_buffer |-> NoVal, future_epoch_buffer |-> NoVal]

\* stream.alpha > 1.2.  The sum of num steps of 1 / den is, in IEEE
\* arithmetic, above 1.2 when num / den is above 6 / 5; when it is 6 / 5
\* (den = 5, or 10) the float sum is 1.20000005 and above the double
\* constant 1.2, the double sum is not.
AlphaExceeds(alpha, is_double) ==
    \/ alpha.den = 0
    \/ 5 * alpha.num > 6 * alpha.den
    \/ ~is_double /\ 5 * alpha.num = 6 * alpha.den

\* alpha += alpha_advacing_per_epoch.
AlphaAdvance(alpha) == Alpha(alpha.num + 1, alpha.den)

ProcessStream_never_idle(stream, is_double) ==
    IF stream.alpha.den = 0 THEN stream
    ELSE [stream EXCEPT !.alpha = AlphaAdvance(@)]

\* process_received_deferred_sync_data on one stream: a stream whose alpha
\* is above 1.2 is passed over; otherwise alpha advances.
ProcessStream(stream, is_double) ==
    IF AlphaExceeds(stream.alpha, is_double) THEN stream
    ELSE [stream EXCEPT !.alpha = AlphaAdvance(@)]

RECURSIVE ApplyEpochCalls(_, _, _)
\* The calls of apply_epoch process_received_deferred_sync_data makes, from
\* the stream i on: alpha and the two buffers.
ApplyEpochCalls(array, is_double, i) ==
    IF i > Len(array) THEN <<>>
    ELSE (IF ProcessStream(array[i], is_double) = array[i] THEN <<>>
          ELSE <<[alpha |-> ProcessStream(array[i], is_double).alpha,
                  past |-> array[i].past_epoch_buffer,
                  future |-> array[i].future_epoch_buffer]>>)
         \o ApplyEpochCalls(array, is_double, i + 1)

\* receive_deferred_sync_data for the stream of the one object of the
\* packet: the future buffer is the packet's, the past buffer is what
\* collect_epoch wrote; when it failed nothing else changes, otherwise the
\* epochs move on and alpha starts again, or is put out of reach.
ReceiveStream(stream, epoch, collect_ok) ==
    IF ~collect_ok
    THEN [stream EXCEPT !.future_epoch_buffer = epoch,
                        !.past_epoch_buffer = NoVal]
    ELSE [stream EXCEPT
            !.future_epoch_buffer = epoch,
            !.past_epoch_buffer = epoch,
            !.past_epoch = stream.future_epoch,
            !.future_epoch = epoch,
            !.alpha = IF stream.future_epoch < epoch
                      THEN Alpha(0, epoch - stream.future_epoch)
                      ELSE FLT_MAX]

\* ---------------------------------------------------------- client actions
\* ClientSynchronizer::process: process_simulation with sub_ticks sub
\* ticks (what calculates_sub_ticks returns), then
\* process_received_server_state, then the END_SYNC events, then
\* process_received_deferred_sync_data.
ClientProcess(sub_ticks) ==
    /\ player_controller_node_data \/ sub_ticks = 0
    /\ input_buffers_counter + sub_ticks <= MaxInputId + 1
    /\ \E st2 \in {SignalEndSync(
                      ProcessReceivedServerState(Simulated(sub_ticks)))} :
          /\ input_buffers_counter' = st2.counter
          /\ changes_listeners' = st2.listeners
          /\ event_flag' = st2.event_flag
          /\ recover_in_progress' = st2.recover_in_progress
          /\ reset_in_progress' = st2.reset_in_progress
          /\ rewinding_in_progress' = st2.rewinding_in_progress
          /\ end_sync' = st2.end_sync
          /\ flag_log' = st2.flog
          /\ sync_end_events' = st2.sync_end
          /\ listener_log' = st2.llog
          /\ current_input_id' = st2.cur
          /\ frames_snapshot' = st2.frames
          /\ val_v' = st2.v
          /\ val_w' = st2.w
          /\ client_snapshots' = st2.client
          /\ server_snapshots' = st2.server
          /\ last_checked_input' = st2.last_checked
          /\ log' = st2.log
          /\ recon' = st2.recon
          /\ max_validated' = SetMax(ValidatedIn(st2.log) \cup {max_validated})
          /\ max_validated_here' =
               SetMax(ValidatedIn(st2.log) \cup {max_validated_here})
    /\ deferred_sync_array' =
         [i \in DOMAIN deferred_sync_array |->
            ProcessStream(deferred_sync_array[i], real_t_is_double)]
    /\ epoch_calls' = ApplyEpochCalls(deferred_sync_array, real_t_is_double, 1)
    /\ last_call' = [op |-> "process", a |-> 0, b |-> 0, c |-> 0]
    /\ UNCHANGED <<player_controller_node_data, real_t_is_double, server_vars,
                   registry_vars, receiver_vars, pair>>

\* ClientSynchronizer::receive_snapshot of a well-formed snapshot whose
\* header holds the input id `id` and which parses to the values sv and sw.
ReceiveSnapshot(id, sv, sw) ==
    /\ LET received == ParseSnapshot(player_controller_node_data, id, sv, sw)
       IN server_snapshots' =
               StoreControllersSnapshot(received, server_snapshots,
                                        player_controller_node_data)
    /\ log' = <<>>
    /\ listener_log' = <<>>
    /\ flag_log' = <<>>
    /\ epoch_calls' = <<>>
    /\ recon' = NoRecon
    /\ last_call' = [op |-> "receive_snapshot", a |-> id, b |-> 0, c |-> 0]
    /\ UNCHANGED <<deferred_sync_array, real_t_is_double>>
    /\ UNCHANGED <<player_controller_node_data, input_buffers_counter,
                   current_input_id, frames_snapshot, val_v, val_w,
                   client_snapshots, last_checked_input, max_validated,
                   max_validated_here, changes_listeners, event_flag, recover_in_progress, reset_in_progress,
                   rewinding_in_progress, end_sync,
                   sync_end_events, server_vars, registry_vars,
                   receiver_vars, pair>>

\* reset_controller of the one controlled object, then
\* ClientSynchronizer::on_controller_reset: the old controller is deleted
\* and a new one made, a PlayerController when is_player.
OnControllerReset(is_player) ==
    /\ player_controller_node_data' = is_player
    /\ input_buffers_counter' = 0
    /\ current_input_id' = UINT32_MAX
    /\ frames_snapshot' = <<>>
    /\ IF player_controller_node_data \/ is_player
       THEN server_snapshots' = <<>> /\ client_snapshots' = <<>>
       ELSE UNCHANGED <<server_snapshots, client_snapshots>>
    /\ max_validated_here' = -1
    /\ log' = <<>>
    /\ listener_log' = <<>>
    /\ flag_log' = <<>>
    /\ epoch_calls' = <<>>
    /\ UNCHANGED <<deferred_sync_array, real_t_is_double>>
    /\ recon' = NoRecon
    /\ last_call' = [op |-> "on_controller_reset",
                     a |-> IF is_player THEN 1 ELSE 0, b |-> 0, c |-> 0]
    /\ UNCHANGED <<val_v, val_w, last_checked_input, max_validated,
                   changes_listeners, event_flag, recover_in_progress, reset_in_progress,
                   rewinding_in_progress, end_sync, sync_end_events,
                   server_vars, registry_vars, receiver_vars, pair>>

ClientInit ==
    /\ player_controller_node_data = FALSE
    /\ input_buffers_counter = 0
    /\ current_input_id = UINT32_MAX
    /\ frames_snapshot = <<>>
    /\ val_v = 0
    /\ val_w = 0
    /\ client_snapshots = <<>>
    /\ server_snapshots = <<>>
    /\ last_checked_input = 0
    /\ changes_listeners = <<>>
    /\ event_flag = {}
    /\ recover_in_progress = FALSE
    /\ reset_in_progress = FALSE
    /\ rewinding_in_progress = FALSE
    /\ end_sync = FALSE
    /\ sync_end_events = <<>>
    /\ deferred_sync_array = <<>>

\* The build whose real_t is float.
SinglePrecision == real_t_is_double = FALSE

ObsInit ==
    /\ log = <<>>
    /\ listener_log = <<>>
    /\ flag_log = <<>>
    /\ epoch_calls = <<>>
    /\ recon = NoRecon
    /\ max_validated = -1
    /\ max_validated_here = -1
    /\ last_call = [op |-> "init", a |-> 0, b |-> 0, c |-> 0]

vars ==
    <<client_vars, server_vars, registry_vars, receiver_vars, pair,
      obs_vars>>

NoCall == [op |-> "init", a |-> 0, b |-> 0, c |-> 0]

\* The Change of an object a group does not hold.
NoChange == [unknown |-> FALSE, vars |-> {}]

\* A Snapshot as constructed, and ClientSynchronizer::clear's.
NoSnapshot == [input_id |-> UINT32_MAX, object_vars |-> <<>>]

NoRx == [kind |-> "none"]

\* No ClientSynchronizer receives snapshots.
NoReceiver ==
    /\ scene = {}
    /\ c_objects = <<>>
    /\ objects_names = {}
    /\ last_received_snapshot = NoSnapshot
    /\ enabled = TRUE
    /\ want_to_enable = FALSE
    /\ need_full_snapshot_notified = FALSE
    /\ emitted = TRUE
    /\ rx = NoRx

\* No pair of snapshots is followed.
NoPair == [stage |-> "none"]

\* No object is registered and no synchronizer was made.
NoRegistry ==
    /\ synchronizer_type = "NULL"
    /\ generate_id = FALSE
    /\ od_vars = <<>>
    /\ host = <<>>
    /\ od_change = NoChange
    /\ object_record = <<>>
    /\ pulled = {}

\* On a client there is no ServerSynchronizer.
NoServer ==
    /\ peer_data = <<>>
    /\ sync_groups = <<>>
    /\ objects = {}
    /\ crashed = FALSE
    /\ sent = <<>>
    /\ prev_call = NoCall
    /\ controllers = <<>>
    /\ peer_dirty = FALSE

InitClient ==
    /\ ClientInit /\ NoServer /\ NoRegistry /\ NoReceiver /\ ObsInit /\ SinglePrecision
    /\ pair = NoPair

NextClient ==
    \/ \E sub_ticks \in 0 .. MaxSubTicks : ClientProcess(sub_ticks)
    \* The server writes in the header the id of the last input of this
    \* peer it processed, one the player controller produced, or no id.
    \/ \E id \in (0 .. input_buffers_counter - 1) \cup {UINT32_MAX},
          sv \in Values, sw \in WValues : ReceiveSnapshot(id, sv, sw)
    \/ \E is_player \in BOOLEAN : OnControllerReset(is_player)

SpecClient == InitClient /\ [][NextClient]_vars

\* ------------------------------------- client: a player that keeps playing
\* The id of the newest input the player controller produced.
NewestInput == input_buffers_counter - 1

BackInputId == server_snapshots[Len(server_snapshots)].input_id

\* The ids a server that sends non-decreasing ids may send next: none below
\* the last one checked or the one queued.
LaterIds ==
    {id \in 0 .. NewestInput :
       /\ id >= last_checked_input
       /\ server_snapshots # <<>> => id >= BackInputId}

\* process() is called at every physics frame.
Tick == \E sub_ticks \in 0 .. MaxSubTicks : ClientProcess(sub_ticks)

\* The server goes on sending: a snapshot for the newest input arrives.
ReceiveNewest ==
    /\ player_controller_node_data
    /\ NewestInput \in LaterIds
    /\ \E sv \in Values, sw \in WValues : ReceiveSnapshot(NewestInput, sv, sw)

NextReconcile ==
    \/ Tick
    \/ \E id \in LaterIds, sv \in Values, sw \in WValues :
          player_controller_node_data /\ ReceiveSnapshot(id, sv, sw)
    \/ ~player_controller_node_data /\ OnControllerReset(TRUE)

\* The frames keep coming and so do the snapshots of the server.
SpecReconcile ==
    /\ InitClient
    /\ [][NextReconcile]_vars
    /\ WF_vars(Tick)
    /\ WF_vars(ReceiveNewest)

\* ------------------------------------------------------ client: listeners
\* The variables a listener is registered for, v being 0 and w being 1, and
\* the masks it is registered with.
WatchedVars == {<<1>>, <<1, 0>>}
ListenerFlags == {{CHANGE}, {END_SYNC}, {SYNC_RECOVER, END_SYNC}}

\* track_variables_changes for variables of the controlled object, which
\* all exist: the listener is appended.
TrackVariablesChanges(watching_vars, flags) ==
    /\ Len(changes_listeners) < MaxListeners
    /\ changes_listeners' =
         Append(changes_listeners, NewListener(watching_vars, flags))
    /\ log' = <<>>
    /\ listener_log' = <<>>
    /\ flag_log' = <<>>
    /\ epoch_calls' = <<>>
    /\ UNCHANGED <<deferred_sync_array, real_t_is_double>>
    /\ recon' = NoRecon
    /\ last_call' = [op |-> "track_variables_changes",
                     a |-> Len(watching_vars), b |-> 0, c |-> 0]
    /\ UNCHANGED <<player_controller_node_data, input_buffers_counter,
                   current_input_id, frames_snapshot, val_v, val_w,
                   client_snapshots, server_snapshots, last_checked_input,
                   event_flag, recover_in_progress, reset_in_progress,
                   rewinding_in_progress, end_sync, sync_end_events, max_validated,
                   max_validated_here, server_vars, registry_vars,
                   receiver_vars, pair>>

NextListeners ==
    \/ \E watching_vars \in WatchedVars, flags \in ListenerFlags :
         TrackVariablesChanges(watching_vars, flags)
    \/ \E sub_ticks \in 0 .. MaxSubTicks : ClientProcess(sub_ticks)
    \* A snapshot arrives when the ones before it were processed.
    \/ \E id \in (0 .. input_buffers_counter - 1) \cup {UINT32_MAX},
          sv \in Values, sw \in WValues :
         server_snapshots = <<>> /\ ReceiveSnapshot(id, sv, sw)
    \/ OnControllerReset(TRUE)

SpecListeners == InitClient /\ [][NextListeners]_vars

\* ---------------------------------------------------- client: deferred sync
\* receive_deferred_sync_data of a well-formed packet of the epoch `epoch`
\* that holds the data of the one object, which is registered locally;
\* collect_ok tells whether the object's collect_epoch_func succeeded.
ReceiveDeferredSyncData(epoch, collect_ok) ==
    /\ deferred_sync_array' =
         <<ReceiveStream(IF deferred_sync_array = <<>> THEN NewStream
                         ELSE deferred_sync_array[1], epoch, collect_ok)>>
    /\ log' = <<>>
    /\ listener_log' = <<>>
    /\ flag_log' = <<>>
    /\ epoch_calls' = <<>>
    /\ recon' = NoRecon
    /\ last_call' = [op |-> "receive_deferred_sync_data", a |-> epoch,
                     b |-> IF collect_ok THEN 1 ELSE 0, c |-> 0]
    /\ UNCHANGED <<player_controller_node_data, input_buffers_counter,
                   current_input_id, frames_snapshot, val_v, val_w,
                   client_snapshots, server_snapshots, last_checked_input,
                   changes_listeners, event_flag, recover_in_progress, reset_in_progress,
                   rewinding_in_progress, end_sync, sync_end_events,
                   real_t_is_double, max_validated, max_validated_here,
                   server_vars, registry_vars, receiver_vars, pair>>

\* A client of either build, without player controller.
InitDeferred ==
    /\ ClientInit /\ NoServer /\ NoRegistry /\ NoReceiver /\ ObsInit
    /\ real_t_is_double \in BOOLEAN
    /\ pair = NoPair

NextDeferred ==
    \/ \E epoch \in 0 .. MaxEpoch, collect_ok \in BOOLEAN :
         ReceiveDeferredSyncData(epoch, collect_ok)
    \/ ClientProcess(0)

SpecDeferred == InitDeferred /\ [][NextDeferred]_vars

\* ================================================================= server
Peers == 2 .. MaxPeers + 1
Objects == 1 .. MaxObjects
\* The group ids the callers pass: MaxGroups is never the id of a group.
GroupIds == 0 .. MaxGroups
\* The update rates of deferred objects: the default one and another.
DefaultUpdateRate == 1
UpdateRates == {DefaultUpdateRate, 2}

\* A PeerData as constructed (core/peer_data.h).
NewPeerData ==
    [enabled |-> TRUE,
     sync_group_id |-> GLOBAL_SYNC_GROUP_ID,
     force_notify_snapshot |-> TRUE,
     need_full_snapshot |-> TRUE,
     controller_id |-> ObjectNetId_NONE]

\* A SyncGroup as constructed: realtime is the set of the realtime objects,
\* deferred maps each deferred object to its update rate.
NewSyncGroup ==
    [realtime |-> {}, deferred |-> <<>>, peers |-> <<>>,
     state_notifier_timer |-> 0]

Restrict(f, S) == [x \in S |-> f[x]]

\* SyncGroup::add_new_node: the object goes to the realtime or to the
\* deferred list, and leaves the other.
AddNewNode(group, od, realtime) ==
    IF realtime
    THEN [group EXCEPT !.realtime = @ \cup {od},
                       !.deferred = Restrict(@, DOMAIN @ \ {od})]
    ELSE [group EXCEPT !.realtime = @ \ {od},
                       !.deferred =
                          [x \in DOMAIN @ \cup {od} |->
                             IF x \in DOMAIN @ THEN @[x]
                             ELSE DefaultUpdateRate]]

\* SyncGroup::remove_node.
RemoveNode(group, od) ==
    [group EXCEPT !.realtime = @ \ {od},
                  !.deferred = Restrict(@, DOMAIN @ \ {od})]

\* SyncGroup::replace_nodes.
ReplaceNodes(group, new_realtime, new_deferred) ==
    [group EXCEPT !.realtime = new_realtime, !.deferred = new_deferred]

\* SyncGroup::remove_all_nodes.
RemoveAllNodes(group) ==
    [group EXCEPT !.realtime = {}, !.deferred = <<>>]

\* SyncGroup::set_deferred_update_rate: the rate of a deferred object.
SetDeferredUpdateRate(group, od, rate) ==
    IF od \in DOMAIN group.deferred
    THEN [group EXCEPT !.deferred[od] = rate]
    ELSE group

RECURSIVE EraseFirst(_, _)
\* LocalVector::erase: the first occurrence of the value is removed.
EraseFirst(q, x) ==
    IF q = <<>> THEN q
    ELSE IF q[1] = x THEN Tail(q)
    ELSE <<q[1]>> \o EraseFirst(Tail(q), x)

\* A variant that leaves the peers lists as they are.
ErasePeerEverywhere_none(groups, peer) == groups

ErasePeerEverywhere(groups, peer) ==
    [i \in 1 .. Len(groups) |->
       [groups[i] EXCEPT !.peers = EraseFirst(@, peer)]]

\* A variant that moves the peer without marking it.
ServerMovePeerTo_no_flags(sv, peer, group_id) ==
    LET erased == ErasePeerEverywhere(sv.groups, peer)
    IN IF group_id = UINT32_MAX \/ group_id >= Len(sv.groups)
       THEN [sv EXCEPT !.groups = erased]
       ELSE [sv EXCEPT !.groups =
               [erased EXCEPT ![group_id + 1].peers = Append(@, peer)]]

\* ServerSynchronizer::sync_group_move_peer_to on sv = [pd, groups].  No
\* object of the model carries a controller, so there is none to add to
\* the group.
ServerMovePeerTo(sv, peer, group_id) ==
    LET erased == ErasePeerEverywhere(sv.groups, peer)
    IN IF group_id = UINT32_MAX THEN [sv EXCEPT !.groups = erased]
       ELSE IF group_id >= Len(sv.groups) THEN [sv EXCEPT !.groups = erased]
       ELSE LET pushed == [erased EXCEPT ![group_id + 1].peers =
                                            Append(@, peer)]
            IN IF peer \notin DOMAIN sv.pd THEN [sv EXCEPT !.groups = pushed]
               ELSE [pd |-> [sv.pd EXCEPT ![peer].force_notify_snapshot = TRUE,
                                          ![peer].need_full_snapshot = TRUE],
                     groups |-> pushed]

\* generate_snapshot(true, group): the list of the realtime objects, the
\* deferred objects by name only, every realtime object with its name and
\* the value of each enabled variable.
FullSnapshot(group_id, group) ==
    [full |-> TRUE, group |-> group_id,
     active |-> group.realtime,
     named |-> group.realtime \cup DOMAIN group.deferred,
     valued |-> group.realtime]

\* generate_snapshot(false, group): the changes since the last checkpoint
\* (the change records are not part of this model).
DeltaSnapshot(group_id, group) == [full |-> FALSE, group |-> group_id]

\* The input id process_snapshot_notificator writes in the header of the
\* snapshot of a peer: the current one of the peer's controller, or none.
PeerInputId_none(sv, peer_id) == UINT32_MAX

PeerInputId(sv, peer_id) ==
    IF sv.pd[peer_id].controller_id \in DOMAIN sv.controllers
    THEN sv.controllers[sv.pd[peer_id].controller_id].current_input_id
    ELSE UINT32_MAX

\* snap->seek(0); snap->add(input_id): the buffer sent is the snapshot
\* with the input id in its header.
WithInputId(snap, input_id) ==
    IF snap.full
    THEN [full |-> TRUE, group |-> snap.group, active |-> snap.active,
          named |-> snap.named, valued |-> snap.valued,
          input_id |-> input_id]
    ELSE [full |-> FALSE, group |-> snap.group, input_id |-> input_id]

RECURSIVE NotifyPeers(_, _, _, _, _)
\* The loop over the peers of one group: sv = [pd, sent, controllers].
NotifyPeers(sv, group_id, group, pi, notify_state) ==
    IF pi > Len(group.peers) THEN sv
    ELSE LET peer_id == group.peers[pi]
         IN IF peer_id \notin DOMAIN sv.pd
            THEN NotifyPeers(sv, group_id, group, pi + 1, notify_state)
            ELSE IF ~sv.pd[peer_id].force_notify_snapshot /\ ~notify_state
            THEN NotifyPeers(sv, group_id, group, pi + 1, notify_state)
            ELSE LET full == sv.pd[peer_id].need_full_snapshot
                     snap == IF full THEN FullSnapshot(group_id, group)
                             ELSE DeltaSnapshot(group_id, group)
                     pd1 == [sv.pd EXCEPT
                               ![peer_id].force_notify_snapshot = FALSE,
                               ![peer_id].need_full_snapshot =
                                   IF full THEN FALSE ELSE @]
                 IN NotifyPeers([pd |-> pd1,
                                 sent |->
                                   (peer_id :>
                                      WithInputId(snap,
                                                  PeerInputId(sv, peer_id)))
                                   @@ sv.sent,
                                 controllers |-> sv.controllers],
                                group_id, group, pi + 1, notify_state)

RECURSIVE NotifyGroups(_, _)
\* The loop over the groups: sv = [pd, groups, sent, controllers].  The timer of a group
\* advances only when the group has peers.
NotifyGroups(sv, g) ==
    IF g >= Len(sv.groups) THEN sv
    ELSE LET group == sv.groups[g + 1]
         IN IF Len(group.peers) = 0 THEN NotifyGroups(sv, g + 1)
            ELSE LET timer == group.state_notifier_timer + 1
                     notify_state == timer >= NotifyIntervalTicks
                     timed == [group EXCEPT !.state_notifier_timer =
                                 IF notify_state THEN 0 ELSE timer]
                     after == NotifyPeers([pd |-> sv.pd, sent |-> sv.sent,
                                           controllers |-> sv.controllers],
                                          g, timed, 1, notify_state)
                 IN NotifyGroups(
                      [pd |-> after.pd,
                       groups |-> [sv.groups EXCEPT ![g + 1] = timed],
                       sent |-> after.sent,
                       controllers |-> sv.controllers], g + 1)

SetMin(S) == CHOOSE x \in S : \A y \in S : x <= y

\* SceneSynchronizerBase::update_peers: the controller id of a peer is
\* dropped when its object is gone or is another peer's, and one that is
\* not assigned is searched among the controllers (the first found is the
\* one of the lowest net id).
UpdatePeers(pd, dirty) ==
    IF ~dirty THEN pd
    ELSE [peer \in DOMAIN pd |->
            LET mine == {od \in DOMAIN controllers :
                           controllers[od].authority = peer}
            IN [pd[peer] EXCEPT !.controller_id =
                  IF @ # ObjectNetId_NONE
                  THEN IF @ \in mine THEN @ ELSE ObjectNetId_NONE
                  ELSE IF mine # {} THEN SetMin(mine) ELSE ObjectNetId_NONE]]

\* ServerSynchronizer::process_snapshot_notificator.
ProcessSnapshotNotificator(pd, groups, controllers_objects_data) ==
    IF DOMAIN pd = {} THEN [pd |-> pd, groups |-> groups, sent |-> <<>>]
    ELSE NotifyGroups([pd |-> pd, groups |-> groups, sent |-> <<>>,
                       controllers |-> controllers_objects_data], 0)

\* A variant that drops the request.
NotifyNeedFullSnapshot_ignored(pd, sender) == pd

\* rpc__notify_need_full_snapshot handled for `sender`.
NotifyNeedFullSnapshot(pd, sender) ==
    IF sender \notin DOMAIN pd THEN pd
    ELSE [pd EXCEPT ![sender].need_full_snapshot = TRUE]

\* SceneSynchronizerBase::sync_group_move_peer_to on sv = [pd, groups].
MovePeerTo(sv, peer, group_id) ==
    IF peer \notin DOMAIN sv.pd THEN sv
    ELSE IF sv.pd[peer].sync_group_id = group_id THEN sv
    ELSE ServerMovePeerTo(
           [sv EXCEPT !.pd[peer].sync_group_id = group_id], peer, group_id)

\* SceneSynchronizerBase::set_peer_networking_enable on sv = [pd, groups].
SetPeerNetworkingEnable(sv, peer, enable) ==
    IF peer \notin DOMAIN sv.pd THEN sv
    ELSE IF sv.pd[peer].enabled = enable THEN sv
    ELSE LET marked == [sv EXCEPT !.pd[peer].enabled = enable,
                                  !.pd[peer].force_notify_snapshot = TRUE,
                                  !.pd[peer].need_full_snapshot = TRUE]
         IN ServerMovePeerTo(marked, peer,
                             IF enable THEN sv.pd[peer].sync_group_id
                             ELSE UINT32_MAX)

\* What a server operation leaves alone, and what it records: itself and,
\* for a process tick, the operation the tick follows.
ServerCall(op, a, b, c) ==
    /\ last_call' = [op |-> op, a |-> a, b |-> b, c |-> c]
    /\ prev_call' = IF op = "process" THEN last_call ELSE NoCall
    /\ UNCHANGED <<client_vars, registry_vars, receiver_vars, pair, log,
                   listener_log, flag_log, epoch_calls, recon, max_validated,
                   max_validated_here>>

\* ---------------------------------------------------------- server actions
\* The network reports a new peer: SceneSynchronizerBase::on_peer_connected
\* and ServerSynchronizer::on_peer_connected.
OnPeerConnected(peer) ==
    /\ ~crashed
    /\ peer \notin DOMAIN peer_data
    /\ LET inserted == (peer :> NewPeerData) @@ peer_data
           sv == ServerMovePeerTo([pd |-> inserted, groups |-> sync_groups],
                                  peer, GLOBAL_SYNC_GROUP_ID)
       IN /\ peer_data' = sv.pd
          /\ sync_groups' = sv.groups
    /\ sent' = <<>>
    /\ UNCHANGED <<objects, crashed>>
    /\ peer_dirty' = TRUE
    /\ UNCHANGED controllers
    /\ ServerCall("on_peer_connected", 0, 0, 0)

\* SceneSynchronizerBase::on_peer_disconnected and the ServerSynchronizer's.
OnPeerDisconnected(peer) ==
    /\ ~crashed
    /\ peer \in DOMAIN peer_data
    /\ peer_data' = Restrict(peer_data, DOMAIN peer_data \ {peer})
    /\ sync_groups' = ErasePeerEverywhere(sync_groups, peer)
    /\ sent' = <<>>
    /\ UNCHANGED <<objects, crashed>>
    /\ UNCHANGED <<controllers, peer_dirty>>
    /\ ServerCall("on_peer_disconnected", 0, 0, 0)

\* SceneSynchronizerBase::sync_group_create.
SyncGroupCreate ==
    /\ ~crashed
    /\ Len(sync_groups) < MaxGroups
    /\ sync_groups' = Append(sync_groups, NewSyncGroup)
    /\ sent' = <<>>
    /\ UNCHANGED <<peer_data, objects, crashed>>
    /\ UNCHANGED <<controllers, peer_dirty>>
    /\ ServerCall("sync_group_create", 0, 0, 0)

\* SceneSynchronizerBase::sync_group_move_peer_to.  The call records the
\* group the peer was registered in before it (-1 for an unknown peer).
SyncGroupMovePeerTo(peer, group_id) ==
    /\ ~crashed
    /\ LET sv == MovePeerTo([pd |-> peer_data, groups |-> sync_groups],
                            peer, group_id)
       IN /\ peer_data' = sv.pd
          /\ sync_groups' = sv.groups
    /\ sent' = <<>>
    /\ UNCHANGED <<objects, crashed>>
    /\ UNCHANGED <<controllers, peer_dirty>>
    /\ ServerCall("sync_group_move_peer_to", peer, group_id,
                  IF peer \in DOMAIN peer_data
                  THEN peer_data[peer].sync_group_id ELSE -1)

\* SceneSynchronizerBase::set_peer_networking_enable (also the handler of
\* rpc_set_network_enabled).  The call records whether it changed the
\* peer's `enabled`.
SetPeerNetworkingEnableCall(peer, enable) ==
    /\ ~crashed
    /\ LET sv == SetPeerNetworkingEnable(
                   [pd |-> peer_data, groups |-> sync_groups], peer, enable)
       IN /\ peer_data' = sv.pd
          /\ sync_groups' = sv.groups
    /\ sent' = <<>>
    /\ UNCHANGED <<objects, crashed>>
    /\ peer_dirty' = (IF peer \in DOMAIN peer_data
                         /\ peer_data[peer].enabled # enable
                      THEN TRUE ELSE peer_dirty)
    /\ UNCHANGED controllers
    /\ ServerCall("set_peer_networking_enable", peer,
                  IF enable THEN 1 ELSE 0,
                  IF peer \in DOMAIN peer_data
                     /\ peer_data[peer].enabled # enable THEN 1 ELSE 0)

\* SceneSynchronizerBase::rpc__notify_need_full_snapshot from `sender`.  The
\* call records the sender's force_notify_snapshot and need_full_snapshot
\* bits as they were before it.
RpcNotifyNeedFullSnapshot(sender) ==
    /\ ~crashed
    /\ peer_data' = NotifyNeedFullSnapshot(peer_data, sender)
    /\ sent' = <<>>
    /\ UNCHANGED <<sync_groups, objects, crashed>>
    /\ UNCHANGED <<controllers, peer_dirty>>
    /\ ServerCall("rpc__notify_need_full_snapshot", sender,
                  IF sender \in DOMAIN peer_data
                     /\ peer_data[sender].force_notify_snapshot THEN 1 ELSE 0,
                  IF sender \in DOMAIN peer_data
                     /\ peer_data[sender].need_full_snapshot THEN 1 ELSE 0)

\* SceneSynchronizerBase::register_app_object of an object not registered
\* yet: on_object_data_added indexes sync_groups[0], which aborts the
\* process when the vector is empty.
RegisterAppObject(od) ==
    /\ ~crashed
    /\ od \notin objects
    /\ objects' = objects \cup {od}
    /\ IF Len(sync_groups) = 0
       THEN /\ crashed' = TRUE
            /\ UNCHANGED sync_groups
       ELSE /\ sync_groups' =
                 [sync_groups EXCEPT ![GLOBAL_SYNC_GROUP_ID + 1] =
                    AddNewNode(@, od, TRUE)]
            /\ UNCHANGED crashed
    /\ sent' = <<>>
    /\ UNCHANGED peer_data
    /\ UNCHANGED <<controllers, peer_dirty>>
    /\ ServerCall("register_app_object", 0, 0, 0)

\* ServerSynchronizer::on_object_data_removed.
OnObjectDataRemoved(groups, od) ==
    [i \in 1 .. Len(groups) |-> RemoveNode(groups[i], od)]

\* SceneSynchronizerBase::unregister_app_object (drop_object_data).
UnregisterAppObject(od) ==
    /\ ~crashed
    /\ od \in objects
    /\ objects' = objects \ {od}
    /\ sync_groups' = OnObjectDataRemoved(sync_groups, od)
    /\ sent' = <<>>
    /\ UNCHANGED <<peer_data, crashed>>
    /\ controllers' = Restrict(controllers, DOMAIN controllers \ {od})
    /\ peer_dirty' = (IF od \in DOMAIN controllers THEN TRUE ELSE peer_dirty)
    /\ ServerCall("unregister_app_object", 0, 0, 0)

\* SceneSynchronizerBase::clear: every object is dropped, then
\* ServerSynchronizer::clear releases the sync groups.
Clear ==
    /\ ~crashed
    /\ objects' = {}
    /\ sync_groups' = <<>>
    /\ sent' = <<>>
    /\ UNCHANGED <<peer_data, crashed>>
    /\ controllers' = <<>>
    /\ peer_dirty' = (IF controllers # <<>> THEN TRUE ELSE peer_dirty)
    /\ ServerCall("clear", 0, 0, 0)

\* A variant that accepts the global group.
GroupIsMutable_any(groups, group_id) == group_id < Len(groups)

\* The guards shared by the operations on the lists of a group: the group
\* exists and is not the global one.
GroupIsMutable(groups, group_id) ==
    /\ group_id < Len(groups)
    /\ group_id # GLOBAL_SYNC_GROUP_ID

\* ServerSynchronizer::sync_group_add_node.
SyncGroupAddNodeOp(groups, od, group_id, realtime) ==
    IF ~GroupIsMutable(groups, group_id) THEN groups
    ELSE [groups EXCEPT ![group_id + 1] = AddNewNode(@, od, realtime)]

\* ServerSynchronizer::sync_group_remove_node.
SyncGroupRemoveNodeOp(groups, od, group_id) ==
    IF ~GroupIsMutable(groups, group_id) THEN groups
    ELSE [groups EXCEPT ![group_id + 1] = RemoveNode(@, od)]

\* ServerSynchronizer::sync_group_replace_nodes.
SyncGroupReplaceNodesOp(groups, group_id, new_realtime, new_deferred) ==
    IF ~GroupIsMutable(groups, group_id) THEN groups
    ELSE [groups EXCEPT ![group_id + 1] =
            ReplaceNodes(@, new_realtime, new_deferred)]

\* ServerSynchronizer::sync_group_remove_all_nodes.
SyncGroupRemoveAllNodesOp(groups, group_id) ==
    IF ~GroupIsMutable(groups, group_id) THEN groups
    ELSE [groups EXCEPT ![group_id + 1] = RemoveAllNodes(@)]

\* ServerSynchronizer::sync_group_set_deferred_update_rate.
SyncGroupSetDeferredUpdateRateOp(groups, od, group_id, rate) ==
    IF ~GroupIsMutable(groups, group_id) THEN groups
    ELSE [groups EXCEPT ![group_id + 1] =
            SetDeferredUpdateRate(@, od, rate)]

\* What the five operations on the lists of a group leave alone.
GroupListsCall(op, group_id) ==
    /\ sent' = <<>>
    /\ UNCHANGED <<peer_data, objects, crashed, controllers, peer_dirty>>
    /\ ServerCall(op, 0, group_id, 0)

SyncGroupAddNode(od, group_id, realtime) ==
    /\ ~crashed
    /\ od \in objects
    /\ sync_groups' = SyncGroupAddNodeOp(sync_groups, od, group_id, realtime)
    /\ GroupListsCall("sync_group_add_node", group_id)

SyncGroupRemoveNode(od, group_id) ==
    /\ ~crashed
    /\ od \in objects
    /\ sync_groups' = SyncGroupRemoveNodeOp(sync_groups, od, group_id)
    /\ GroupListsCall("sync_group_remove_node", group_id)

\* The caller passes lists of registered objects, none of them in both;
\* the deferred ones come with the default update rate.
SyncGroupReplaceNodes(group_id, new_realtime, new_deferred) ==
    /\ ~crashed
    /\ new_realtime \cap new_deferred = {}
    /\ sync_groups' =
         SyncGroupReplaceNodesOp(sync_groups, group_id, new_realtime,
                                 [x \in new_deferred |-> DefaultUpdateRate])
    /\ GroupListsCall("sync_group_replace_nodes", group_id)

SyncGroupRemoveAllNodes(group_id) ==
    /\ ~crashed
    /\ sync_groups' = SyncGroupRemoveAllNodesOp(sync_groups, group_id)
    /\ GroupListsCall("sync_group_remove_all_nodes", group_id)

SyncGroupSetDeferredUpdateRate(od, group_id, rate) ==
    /\ ~crashed
    /\ od \in objects
    /\ sync_groups' =
         SyncGroupSetDeferredUpdateRateOp(sync_groups, od, group_id, rate)
    /\ GroupListsCall("sync_group_set_deferred_update_rate", group_id)

\* The most inputs a server controller processes.
MaxServerInputId == 0

\* ServerController::process, run by process_functions__execute: the
\* controller takes the next input of its peer, when it has one.
NextInputId(id) == IF id = UINT32_MAX THEN 0 ELSE id + 1

\* ServerSynchronizer::process: update_peers, the process functions (the
\* controllers of `advancing` have an input to process), then
\* process_snapshot_notificator; the deferred sync keeps no state of this
\* model.
ServerProcess(advancing) ==
    /\ ~crashed
    /\ \A od \in advancing :
         NextInputId(controllers[od].current_input_id) <= MaxServerInputId
    /\ controllers' =
         [od \in DOMAIN controllers |->
            IF od \in advancing
            THEN [controllers[od] EXCEPT !.current_input_id = NextInputId(@)]
            ELSE controllers[od]]
    /\ peer_dirty' = FALSE
    /\ \E sv \in {ProcessSnapshotNotificator(
                     UpdatePeers(peer_data, peer_dirty), sync_groups,
                     controllers')} :
         /\ peer_data' = sv.pd
         /\ sync_groups' = sv.groups
         /\ sent' = sv.sent
    /\ UNCHANGED <<objects, crashed>>
    /\ ServerCall("process", 0, 0, 0)

\* On the server there is no ClientSynchronizer.
NoClient == ClientInit

\* The ServerSynchronizer as constructed: the global group exists.
ServerInit ==
    /\ peer_data = <<>>
    /\ sync_groups = <<NewSyncGroup>>
    /\ objects = {}
    /\ crashed = FALSE
    /\ sent = <<>>
    /\ prev_call = NoCall
    /\ controllers = <<>>
    /\ peer_dirty = FALSE

InitServer ==
    /\ NoClient /\ ServerInit /\ NoRegistry /\ NoReceiver /\ ObsInit /\ SinglePrecision
    /\ pair = NoPair

NextServer ==
    \/ \E peer \in Peers : OnPeerConnected(peer)
    \/ \E peer \in Peers : OnPeerDisconnected(peer)
    \/ SyncGroupCreate
    \/ \E peer \in Peers, group_id \in GroupIds :
          SyncGroupMovePeerTo(peer, group_id)
    \/ \E peer \in Peers, enable \in BOOLEAN :
          SetPeerNetworkingEnableCall(peer, enable)
    \/ \E sender \in Peers : RpcNotifyNeedFullSnapshot(sender)
    \/ \E od \in Objects : RegisterAppObject(od)
    \/ \E od \in Objects : UnregisterAppObject(od)
    \/ Clear
    \/ \E od \in Objects, group_id \in GroupIds, realtime \in BOOLEAN :
          SyncGroupAddNode(od, group_id, realtime)
    \/ \E od \in Objects, group_id \in GroupIds :
          SyncGroupRemoveNode(od, group_id)
    \/ \E group_id \in GroupIds, new_realtime \in SUBSET objects,
          new_deferred \in SUBSET objects :
          SyncGroupReplaceNodes(group_id, new_realtime, new_deferred)
    \/ \E group_id \in GroupIds : SyncGroupRemoveAllNodes(group_id)
    \/ \E od \in Objects, group_id \in GroupIds, rate \in UpdateRates :
          SyncGroupSetDeferredUpdateRate(od, group_id, rate)
    \/ \E advancing \in SUBSET DOMAIN controllers : ServerProcess(advancing)

SpecServer == InitServer /\ [][NextServer]_vars

\* ------------------------------------------- server: peers with controllers
\* The most peers that connect when the objects carry controllers.
MaxControllerPeers == 2

ControllerPeers == 2 .. MaxControllerPeers + 1

\* A ServerController as constructed: no input was processed yet.
NewController(authority) ==
    [authority |-> authority, current_input_id |-> UINT32_MAX]

\* ServerSynchronizer::on_object_data_added for an object with a
\* controller: the peer the controller belongs to, when connected, is
\* marked for a full snapshot.
MarkControllerPeer(pd, authority) ==
    IF authority \in DOMAIN pd
    THEN [pd EXCEPT ![authority].force_notify_snapshot = TRUE,
                    ![authority].need_full_snapshot = TRUE]
    ELSE pd

\* SceneSynchronizerBase::register_app_object of an object not registered
\* yet that carries a controller of the peer `authority`.
RegisterControllerObject(od, authority) ==
    /\ ~crashed
    /\ od \notin objects
    /\ objects' = objects \cup {od}
    /\ controllers' = (od :> NewController(authority)) @@ controllers
    /\ peer_dirty' = TRUE
    /\ IF Len(sync_groups) = 0
       THEN /\ crashed' = TRUE
            /\ UNCHANGED <<sync_groups, peer_data>>
       ELSE /\ sync_groups' =
                 [sync_groups EXCEPT ![GLOBAL_SYNC_GROUP_ID + 1] =
                    AddNewNode(@, od, TRUE)]
            /\ peer_data' = MarkControllerPeer(peer_data, authority)
            /\ UNCHANGED crashed
    /\ sent' = <<>>
    /\ ServerCall("register_app_object", 0, 0, 0)

\* force_state_notify: the timer of the group is set past the interval.
ForceStateNotifyOp_ignored(groups, group_id) == groups

ForceStateNotifyOp(groups, group_id) ==
    IF group_id >= Len(groups) THEN groups
    ELSE [groups EXCEPT ![group_id + 1].state_notifier_timer =
            NotifyIntervalTicks + 1]

\* SceneSynchronizerBase::force_state_notify.
ForceStateNotify(group_id) ==
    /\ ~crashed
    /\ sync_groups' = ForceStateNotifyOp(sync_groups, group_id)
    /\ sent' = <<>>
    /\ UNCHANGED <<peer_data, objects, crashed, controllers, peer_dirty>>
    /\ ServerCall("force_state_notify", group_id, 0, 0)

NextControllers ==
    \/ \E peer \in ControllerPeers : OnPeerConnected(peer)
    \/ \E peer \in ControllerPeers : OnPeerDisconnected(peer)
    \/ SyncGroupCreate
    \/ \E peer \in ControllerPeers, group_id \in 0 .. MaxGroups - 1 :
          SyncGroupMovePeerTo(peer, group_id)
    \/ \E od \in Objects, authority \in ControllerPeers :
          RegisterControllerObject(od, authority)
    \/ \E group_id \in 0 .. MaxGroups - 1 : ForceStateNotify(group_id)
    \/ \E advancing \in SUBSET DOMAIN controllers : ServerProcess(advancing)

SpecControllers == InitServer /\ [][NextControllers]_vars

\* ------------------------------------------------------------ client claims
Ids(q) == [i \in 1 .. Len(q) |-> q[i].input_id]

StrictlyIncreasing(ids) ==
    \A i \in 1 .. Len(ids) - 1 : ids[i] < ids[i + 1]

\* The client snapshots are those of the frames the controller stores.
FramesMatchSnapshots == Ids(client_snapshots) = frames_snapshot

\* C4: in every reachable state client_snapshots is strictly increasing in
\* input id: store_snapshot appends a greater id only, and a rewind
\* refreshes the entries in place, leaving their ids alone.
C4_ClientSnapshotsIncreasing ==
    /\ StrictlyIncreasing(Ids(client_snapshots))
    /\ (last_call.op = "process" /\ recon.kind = "checked")
         => Ids(client_snapshots) =
              SelectSeq(recon.frames, LAMBDA id : id > recon.k)

\* C4's case: a rewind has refreshed two snapshots, and the queue holds them.
C4_Witness ==
    /\ Len(client_snapshots) >= 2
    /\ \E i \in 1 .. Len(log) : log[i].e = "rewind_frame_begin" /\ log[i].b = 1

\* C5: with a player controller, a received snapshot whose id is greater
\* than the newest queued one is appended at the back of server_snapshots,
\* one with the same id replaces the back entry, and the queue stays
\* strictly increasing.
C5_ReceivedSnapshotQueued ==
    [][(last_call'.op = "receive_snapshot" /\ player_controller_node_data
        /\ last_call'.a # UINT32_MAX /\ server_snapshots # <<>>)
       => LET back == server_snapshots[Len(server_snapshots)].input_id
              id == last_call'.a
          IN /\ id > back
                  => /\ Len(server_snapshots') = Len(server_snapshots) + 1
                     /\ SubSeq(server_snapshots', 1, Len(server_snapshots))
                          = server_snapshots
                     /\ server_snapshots'[Len(server_snapshots')].input_id = id
             /\ id = back => Ids(server_snapshots') = Ids(server_snapshots)
             /\ StrictlyIncreasing(Ids(server_snapshots'))]_vars

\* The last operation was a process() whose reconciliation found the
\* snapshots of id recon.k different in v: a hard divergence.
HardDivergence ==
    /\ last_call.op = "process"
    /\ recon.kind = "checked"
    /\ recon.server.v # recon.client.v

\* The inputs the player controller had queued after the matched id.
Queued == SelectSeq(recon.frames, LAMBDA id : id > recon.k)

RewindEvents == SelectSeq(log, LAMBDA ev : ev.e = "rewind_frame_begin")

RECURSIVE StepTimes(_, _)
StepTimes(v, i) == IF i = 0 THEN v ELSE StepTimes(Step(v), i - 1)

\* C1: on a hard divergence at the matched id k, the server snapshot is
\* applied first, under SYNC_RECOVER|SYNC_RESET; then for each of the n
\* inputs queued after k, in increasing id order, rewind_frame_begin(id_i,
\* i, n) is emitted, i = 0 .. n-1, right before the process callbacks run
\* under SYNC_RECOVER|SYNC_REWIND, and client_snapshots[i] is overwritten
\* with the resimulated state.
C1_HardDivergenceRewinds ==
    HardDivergence =>
      LET n == Len(Queued)
          rw == {SYNC_RECOVER, SYNC_REWIND}
      IN /\ Len(log) >= 1
         /\ log[1] = Event("apply", recon.k, recon.server.v, recon.server.w,
                           {SYNC_RECOVER, SYNC_RESET})
         /\ \A p \in 2 .. Len(log) : log[p].e # "apply"
         /\ StrictlyIncreasing(Queued)
         /\ Len(RewindEvents) = n
         /\ \A i \in 1 .. n :
              RewindEvents[i] =
                Event("rewind_frame_begin", Queued[i], i - 1, n, rw)
         /\ \A p \in 1 .. Len(log) :
              log[p].e = "rewind_frame_begin"
                => /\ p < Len(log)
                   /\ log[p + 1].e = "process"
                   /\ log[p + 1].flag = rw
         /\ \A p \in 1 .. Len(log) :
              log[p].e = "process"
                => p > 1 /\ log[p - 1].e = "rewind_frame_begin"
         /\ Ids(client_snapshots) = Queued
         /\ \A i \in 1 .. Len(client_snapshots) :
              /\ client_snapshots[i].v = StepTimes(recon.server.v, i)
              /\ client_snapshots[i].w = recon.server.w

\* C1's case: a hard divergence with two inputs queued after the matched id.
C1_Witness ==
    /\ HardDivergence
    /\ Len(Queued) = 2
    /\ Len(RewindEvents) = 2
    /\ client_snapshots[2].v # recon.client.v

\* The last operation was a process() whose reconciliation found the
\* snapshots of id recon.k equal.
EqualAtMatched ==
    /\ last_call.op = "process"
    /\ recon.kind = "checked"
    /\ recon.server.v = recon.client.v
    /\ recon.server.w = recon.client.w

\* What C2 says of the tick itself: state_validated(k) is the one event (no
\* variable is written, no rewind_frame_begin, no state_validated for an
\* older id), and the snapshots of k and the older ones are gone.
C2_EqualTick ==
    EqualAtMatched =>
      /\ log = <<Event("state_validated", recon.k, 0, 0, {})>>
      /\ \A i \in 1 .. Len(client_snapshots) :
           client_snapshots[i].input_id > recon.k
      /\ \A i \in 1 .. Len(server_snapshots) :
           server_snapshots[i].input_id # recon.k

\* C2 as stated: the above, and state_validated(k) is never emitted a second
\* time in a later tick; taken for k the largest id validated so far.
C2_NeverValidatedAgain ==
    [][/\ C2_EqualTick'
       /\ \A i \in 1 .. Len(log') :
            log'[i].e = "state_validated" => log'[i].a # max_validated]_vars

\* C2, amended: the above for the tick, and for as long as the same player
\* controller is in place every state_validated carries an id greater than
\* all the ids validated before, so none is emitted a second time.
C2_ValidatedOncePerController ==
    [][/\ C2_EqualTick'
       /\ \A i \in 1 .. Len(log') :
            log'[i].e = "state_validated"
              => log'[i].a > max_validated_here]_vars

\* C2's case: the snapshots of k were equal, an older client snapshot was
\* dropped, and newer ones stay.
C2_Witness ==
    /\ EqualAtMatched
    /\ recon.frames[1] < recon.k
    /\ client_snapshots # <<>>
    /\ log = <<Event("state_validated", recon.k, 0, 0, {})>>

\* C3 as stated: after state_validated(k), client_snapshots never again
\* holds an entry of input id <= k.
C3_NeverAtOrBelowValidated ==
    \A i \in 1 .. Len(client_snapshots) :
      client_snapshots[i].input_id > max_validated

\* C3, amended: after state_validated(k), client_snapshots holds no entry
\* of input id <= k for as long as the same player controller is in place.
C3_AboveValidatedPerController ==
    \A i \in 1 .. Len(client_snapshots) :
      client_snapshots[i].input_id > max_validated_here

\* C3's case: an id was validated and snapshots were stored since.
C3_Witness ==
    /\ max_validated_here >= 1
    /\ Len(client_snapshots) >= 2
    /\ last_call.op = "process"

\* ------------------------------------------------------------ server claims
\* The peers list of group `group_id`, empty when there is no such group.
PeersOf(group_id) ==
    IF group_id < Len(sync_groups) THEN sync_groups[group_id + 1].peers
    ELSE <<>>

\* How many times `peer` is listed in the peers lists of the sync groups.
Occurrences(peer) ==
    Cardinality({gi \in {x \in (1 .. Len(sync_groups)) \X (1 .. MaxPeers + 1) :
                           x[2] <= Len(sync_groups[x[1]].peers)} :
                   sync_groups[gi[1]].peers[gi[2]] = peer})

\* The last process tick directly followed a sync_group_move_peer_to of a
\* connected peer to an existing group other than its recorded one.
ProcessedAfterMove ==
    /\ last_call.op = "process"
    /\ prev_call.op = "sync_group_move_peer_to"
    /\ prev_call.c # -1
    /\ prev_call.c # prev_call.b
    /\ prev_call.b < Len(sync_groups)

\* C6: in the process tick that follows sync_group_move_peer_to(P, G1), G1
\* an existing group other than P's recorded one, P is sent a snapshot, the
\* snapshot is full, and its active-object list, its names and its values
\* are those of G1's lists.
C6_MovedPeerGetsFullSnapshot ==
    ProcessedAfterMove =>
       LET P == prev_call.a
           G1 == sync_groups[prev_call.b + 1]
       IN /\ P \in DOMAIN sent
          /\ sent[P].full
          /\ sent[P].group = prev_call.b
          /\ sent[P].active = G1.realtime
          /\ sent[P].named = G1.realtime \cup DOMAIN G1.deferred
          /\ sent[P].valued = G1.realtime

\* The moved peer got the full snapshot of a group whose lists differ from
\* the global group's, in a tick where the state interval had not elapsed.
C6_Witness ==
    /\ ProcessedAfterMove
    /\ prev_call.b # GLOBAL_SYNC_GROUP_ID
    /\ prev_call.a \in DOMAIN sent
    /\ sent[prev_call.a].full
    /\ sent[prev_call.a].active # objects
    /\ sent[prev_call.a].named # sent[prev_call.a].active
    /\ sync_groups[prev_call.b + 1].state_notifier_timer # 0

\* C7: a need-full-snapshot request of a connected peer sets that peer's
\* need_full_snapshot bit and nothing else, a request of an unknown peer
\* changes nothing; while the bit is set every snapshot sent to the peer is
\* full, and the bit is cleared only by a step that sends it one.
C7_FullSnapshotOnRequest ==
    [][/\ (last_call'.op = "rpc__notify_need_full_snapshot" =>
            /\ sync_groups' = sync_groups
            /\ objects' = objects
            /\ crashed' = crashed
            /\ IF last_call'.a \in DOMAIN peer_data
               THEN peer_data' = [peer_data EXCEPT
                                    ![last_call'.a].need_full_snapshot = TRUE]
               ELSE peer_data' = peer_data)
       /\ \A p \in DOMAIN peer_data \cap DOMAIN peer_data' :
            peer_data[p].need_full_snapshot =>
               /\ (p \in DOMAIN sent' =>
                      sent'[p].full /\ ~peer_data'[p].need_full_snapshot)
               /\ (~peer_data'[p].need_full_snapshot =>
                      p \in DOMAIN sent' /\ sent'[p].full)]_vars

\* A peer that had neither bit set asked for a full snapshot, and the next
\* tick, the one where the state interval elapsed, sent it one.
C7_Witness ==
    /\ last_call.op = "process"
    /\ prev_call.op = "rpc__notify_need_full_snapshot"
    /\ prev_call.b = 0
    /\ prev_call.c = 0
    /\ prev_call.a \in DOMAIN sent
    /\ sent[prev_call.a].full
    /\ ~peer_data[prev_call.a].need_full_snapshot

C9_GlobalGroupHoldsRegistered ==
    /\ ~crashed
    /\ Len(sync_groups) >= 1
    /\ sync_groups[1].realtime = objects

\* The realtime and deferred lists of the global group, both empty when the
\* group does not exist.
GlobalGroupLists ==
    IF Len(sync_groups) >= 1
    THEN <<sync_groups[1].realtime, sync_groups[1].deferred>>
    ELSE <<{}, <<>>>>

GroupListsOps ==
    {"sync_group_add_node", "sync_group_remove_node",
     "sync_group_replace_nodes", "sync_group_remove_all_nodes",
     "sync_group_set_deferred_update_rate"}

\* One of the five operations on the lists of a group, called with the id
\* of the global group, changes nothing on the server.
GlobalGroupCallRejected ==
    (last_call'.op \in GroupListsOps /\ last_call'.b = GLOBAL_SYNC_GROUP_ID)
       => /\ sync_groups' = sync_groups
          /\ peer_data' = peer_data
          /\ objects' = objects
          /\ crashed' = crashed

\* C10, as stated: the five operations called with group id 0 are rejected,
\* and no operation other than registering or unregistering an object
\* changes the lists of group 0.
C10_OnlyRegistrationChangesGlobalGroup ==
    [][/\ GlobalGroupCallRejected
       /\ (last_call'.op \notin {"register_app_object",
                                 "unregister_app_object"}
             => GlobalGroupLists' = GlobalGroupLists)]_vars

\* C10, amended: the five operations called with group id 0 are rejected,
\* and no operation other than registering an object, unregistering one or
\* clear() changes the lists of group 0.
C10_GlobalGroupNotUserMutable ==
    [][/\ GlobalGroupCallRejected
       /\ (last_call'.op \notin {"register_app_object",
                                 "unregister_app_object", "clear"}
             => GlobalGroupLists' = GlobalGroupLists)]_vars

\* sync_group_add_node was called with the id of the global group for a
\* registered object as a deferred one, while another group exists, and
\* the object is still a realtime one of the global group.
C10_Witness ==
    /\ last_call.op = "sync_group_add_node"
    /\ last_call.b = GLOBAL_SYNC_GROUP_ID
    /\ Len(sync_groups) > 1
    /\ objects # {}
    /\ sync_groups[1].realtime = objects
    /\ DOMAIN sync_groups[1].deferred = {}

\* C11: sync_group_move_peer_to(P, G) with a group id G that does not exist
\* leaves the peers lists of the groups and P's PeerData (sync_group_id,
\* force_notify_snapshot, need_full_snapshot) as they were.
C11_MoveToMissingGroupChangesNothing ==
    [][(/\ last_call'.op = "sync_group_move_peer_to"
        /\ last_call'.a \in DOMAIN peer_data
        /\ last_call'.b >= Len(sync_groups))
          => /\ sync_groups' = sync_groups
             /\ peer_data' = peer_data]_vars

\* =============================================================== registry
\* One registered application object and its variables, under a
\* synchronizer whose role may change.  DEBUG_ENABLED blocks are left out.
\* Caps the slots one object holds.
MaxSlots == 3

VarId_NONE == UINT32_MAX

\* The names the application registers; the object has the HostNames only.
VarNames == {"a", "b", "x"}
HostNames == {"a", "b"}

SynchronizerTypes == {"NONETWORK", "SERVER", "CLIENT"}

VarDescriptor(p_id, p_name, p_val, p_enabled) ==
    [id |-> p_id, name |-> p_name, value |-> p_val, enabled |-> p_enabled]

\* SynchronizerManager::get_variable: the value is left Nil when the
\* object has no such variable.
GetVariableValid(h, name) == name \in DOMAIN h
GetVariable(h, name) == IF GetVariableValid(h, name) THEN h[name] ELSE NoVal

\* ObjectData::find_variable_id: the id stored in the first slot that has
\* the name.
FindVariableId(vs, name) ==
    LET hits == {i \in 1 .. Len(vs) : vs[i].name = name}
    IN IF hits = {} THEN VarId_NONE
       ELSE vs[CHOOSE i \in hits : \A j \in hits : i <= j].id

\* SceneSynchronizerBase::is_variable_registered
IsVariableRegistered(vs, name) == FindVariableId(vs, name) # VarId_NONE

\* SceneSynchronizerBase::register_variable, up to on_variable_added.
RegisterVariable(vs, h, name) ==
    LET var_id == FindVariableId(vs, name)
    IN IF var_id = VarId_NONE
       THEN Append(vs, VarDescriptor(Len(vs), name, GetVariable(h, name),
                                     TRUE))
       ELSE [vs EXCEPT ![var_id + 1].enabled = TRUE]

\* SceneSynchronizerBase::unregister_variable
UnregisterVariable(vs, name) ==
    LET var_id == FindVariableId(vs, name)
    IN IF var_id = VarId_NONE THEN vs
       ELSE [vs EXCEPT ![var_id + 1].enabled = FALSE]

\* SceneSynchronizerBase::init_synchronizer: the variables' ids when the
\* synchronizer starts or stops generating ids.
RenumberVars(vs, was_generating_ids, generating) ==
    IF was_generating_ids = generating THEN vs
    ELSE [v \in 1 .. Len(vs) |->
            [vs[v] EXCEPT !.id = IF generating THEN v - 1 ELSE VarId_NONE]]

\* SyncGroup::notify_new_variable and SyncGroup::notify_variable_changed
NotifyVariable(change, name) ==
    [change EXCEPT !.vars = change.vars \cup {name}]

\* SceneSynchronizerBase::pull_node_changes: the slots after the pull, the
\* slots read from the host and the slots found changed.
PullNodeChanges(vs, h) ==
    LET read == {i \in 1 .. Len(vs) : vs[i].enabled}
        changed == {i \in read : vs[i].value # GetVariable(h, vs[i].name)}
    IN [vars |-> [i \in 1 .. Len(vs) |->
                    IF i \in changed
                    THEN [vs[i] EXCEPT !.value = GetVariable(h, vs[i].name)]
                    ELSE vs[i]],
        read |-> read,
        changed |-> changed]

GenerateSnapshotObjectData_all_enabled(vs, mode, change) ==
    [has_name |-> mode \in {"FORCE_FULL", "FORCE_NODE_PATH_ONLY"}
                    \/ change.unknown,
     vars |-> [i \in 1 .. Len(vs) |->
                 [has_value |-> vs[i].enabled,
                  value |-> IF vs[i].enabled THEN vs[i].value ELSE NoVal]]]

\* ServerSynchronizer::generate_snapshot_object_data: whether the record
\* names the object, and for each slot the has-value flag and the value.
GenerateSnapshotObjectData(vs, mode, change) ==
    LET force_using_node_path ==
            mode \in {"FORCE_FULL", "FORCE_NODE_PATH_ONLY"}
        force_snapshot_variables == mode = "FORCE_FULL"
        skip_snapshot_variables == mode = "FORCE_NODE_PATH_ONLY"
        node_has_changes == change.vars # {}
        allow_vars == \/ force_snapshot_variables
                      \/ (node_has_changes /\ ~skip_snapshot_variables)
                      \/ change.unknown
        HasValue(var) ==
            /\ allow_vars
            /\ var.enabled
            /\ (force_snapshot_variables \/ var.name \in change.vars)
    IN [has_name |-> force_using_node_path \/ change.unknown,
        vars |-> [i \in 1 .. Len(vs) |->
                    [has_value |-> HasValue(vs[i]),
                     value |-> IF HasValue(vs[i]) THEN vs[i].value
                               ELSE NoVal]]]

\* What a registry operation leaves alone, and what it records.
RegistryCall(op, a) ==
    /\ last_call' = [op |-> op, a |-> a, b |-> 0, c |-> 0]
    /\ UNCHANGED <<client_vars, server_vars, receiver_vars, pair, log,
                   listener_log, flag_log, epoch_calls, recon, max_validated,
                   max_validated_here>>

\* -------------------------------------------------------- registry actions
\* SceneSynchronizerBase::register_variable(id, name) for the object.
RegisterVariableCall(name) ==
    /\ Len(od_vars) < MaxSlots
    /\ od_vars' = RegisterVariable(od_vars, host, name)
    /\ od_change' = IF synchronizer_type = "SERVER"
                    THEN NotifyVariable(od_change, name)
                    ELSE od_change
    /\ object_record' = <<>>
    /\ pulled' = {}
    /\ UNCHANGED <<synchronizer_type, generate_id, host>>
    /\ RegistryCall("register_variable", name)

\* SceneSynchronizerBase::unregister_variable(id, name) for the object.
UnregisterVariableCall(name) ==
    /\ od_vars' = UnregisterVariable(od_vars, name)
    /\ object_record' = <<>>
    /\ pulled' = {}
    /\ UNCHANGED <<synchronizer_type, generate_id, host, od_change>>
    /\ RegistryCall("unregister_variable", name)

\* SceneSynchronizerBase::reset_synchronizer_mode after the local peer's
\* role became `type`: uninit_synchronizer, then init_synchronizer.
ResetSynchronizerMode(type) ==
    LET generating == type \in {"NONETWORK", "SERVER"}
        renumbered == RenumberVars(od_vars, generate_id, generating)
        names == {renumbered[i].name : i \in 1 .. Len(renumbered)}
    IN /\ synchronizer_type' = type
       /\ generate_id' = generating
       /\ od_vars' = renumbered
          \* A new ServerSynchronizer: on_object_data_added puts the object
          \* in the global group, on_variable_added notifies each variable.
       /\ od_change' = IF type = "SERVER"
                       THEN [unknown |-> TRUE, vars |-> names]
                       ELSE NoChange
       /\ object_record' = <<>>
       /\ pulled' = {}
       /\ UNCHANGED host
       /\ RegistryCall("reset_synchronizer_mode", type)

\* The application writes one of the object's variables.
HostSetVariable(name, value) ==
    /\ host[name] # value
    /\ host' = [host EXCEPT ![name] = value]
    /\ object_record' = <<>>
    /\ pulled' = {}
    /\ UNCHANGED <<synchronizer_type, generate_id, od_vars, od_change>>
    /\ RegistryCall("host_set_variable", name)

\* SyncGroup::mark_changes_as_notified: every object of the group is known
\* and no variable of it is changed.
MarkChangesAsNotified(change) == NoChange

\* process_snapshot_notificator's last statement: the group's changes are
\* marked as notified in the ticks where its timer fired.
MarksChanges_on_send(notify_state, sends) == sends

MarksChanges(notify_state, sends) == notify_state

\* One process() of the synchronizer: detect_and_signal_changed_variables,
\* and on the server process_snapshot_notificator for the one peer of the
\* object's group: `notify_state` is the group's timer reaching the state
\* interval in this tick, the two others are the peer's flags.  The peer is
\* sent a snapshot when the timer fired or the peer is force-notified, a
\* full one when it needs one; the change records are marked as notified
\* only when the timer fired.
RegistryProcess(notify_state, force_notify_snapshot, need_full_snapshot) ==
    LET pull == PullNodeChanges(od_vars, host)
        server == synchronizer_type = "SERVER"
        change == IF server
                  THEN [od_change EXCEPT !.vars =
                          od_change.vars \cup
                            {od_vars[i].name : i \in pull.changed}]
                  ELSE od_change
        sends == server /\ (notify_state \/ force_notify_snapshot)
    IN /\ od_vars' = pull.vars
       /\ pulled' = pull.read
       /\ object_record' =
            IF sends
            THEN GenerateSnapshotObjectData(
                   pull.vars,
                   IF need_full_snapshot THEN "FORCE_FULL" ELSE "NORMAL",
                   change).vars
            ELSE <<>>
       /\ od_change' = IF server /\ MarksChanges(notify_state, sends)
                       THEN MarkChangesAsNotified(change)
                       ELSE change
       /\ UNCHANGED <<synchronizer_type, generate_id, host>>
       /\ last_call' = [op |-> "process",
                        a |-> IF sends THEN "sent" ELSE "none",
                        b |-> IF need_full_snapshot THEN 1 ELSE 0,
                        c |-> IF notify_state THEN 1 ELSE 0]
       /\ UNCHANGED <<client_vars, server_vars, receiver_vars, pair, log,
                      listener_log, flag_log, epoch_calls, recon, max_validated,
                      max_validated_here>>

\* The object is registered, without variables, under a synchronizer of
\* some role.
RegistryInit ==
    /\ synchronizer_type \in SynchronizerTypes
    /\ generate_id = (synchronizer_type \in {"NONETWORK", "SERVER"})
    /\ od_vars = <<>>
    /\ host = [n \in HostNames |-> 0]
    /\ od_change = IF synchronizer_type = "SERVER"
                   THEN [unknown |-> TRUE, vars |-> {}]
                   ELSE NoChange
    /\ object_record = <<>>
    /\ pulled = {}

InitRegistry ==
    /\ NoClient /\ NoServer /\ RegistryInit /\ NoReceiver /\ ObsInit /\ SinglePrecision
    /\ pair = NoPair

NextRegistry ==
    \/ \E name \in VarNames : RegisterVariableCall(name)
    \/ \E name \in VarNames : UnregisterVariableCall(name)
    \/ \E type \in SynchronizerTypes : ResetSynchronizerMode(type)
    \/ \E name \in HostNames, value \in Values : HostSetVariable(name, value)
    \/ \E notify_state \in BOOLEAN, force_notify_snapshot \in BOOLEAN,
         need_full_snapshot \in BOOLEAN :
          RegistryProcess(notify_state, force_notify_snapshot,
                          need_full_snapshot)

SpecRegistry == InitRegistry /\ [][NextRegistry]_vars

\* ---------------------------------------------------------- registry claims
\* C12: register_variable(id, name) for a variable the host does not know
\* appends no VarDescriptor (the slot count stays) and leaves
\* is_variable_registered(id, name) false.
C12_UnknownVariableNotRegistered ==
    [][(/\ last_call'.op = "register_variable"
        /\ ~GetVariableValid(host, last_call'.a)
        /\ ~IsVariableRegistered(od_vars, last_call'.a))
          => /\ Len(od_vars') = Len(od_vars)
             /\ ~IsVariableRegistered(od_vars', last_call'.a)]_vars

\* C13: in every reachable state the ids of the object's VarDescriptor
\* slots are 0 .. n-1 in slot order (vars[i].id = i), whatever sequence of
\* register_variable, unregister_variable and reset_synchronizer_mode led
\* there, a change between an id-generating and a non-generating role
\* included.
C13_SlotIdsAreIndexes ==
    \A i \in 1 .. Len(od_vars) : od_vars[i].id = i - 1

SlotsOf(vs, name) == {i \in 1 .. Len(vs) : vs[i].name = name}

\* C14: register_variable(id, name) of a variable that unregister_variable
\* disabled adds no slot, changes no id and enables the variable's slot;
\* a process reads no disabled slot from the host and reads every enabled
\* one, and a snapshot record writes has-value = false for a disabled slot.
C14_ReRegisterKeepsSlot ==
    [][/\ (/\ last_call'.op = "register_variable"
           /\ \E i \in SlotsOf(od_vars, last_call'.a) : ~od_vars[i].enabled)
             => /\ Len(od_vars') = Len(od_vars)
                /\ \A i \in 1 .. Len(od_vars) :
                      od_vars'[i].id = od_vars[i].id
                /\ \A i \in SlotsOf(od_vars, last_call'.a) :
                      od_vars'[i].enabled
       /\ last_call'.op = "process"
             => /\ pulled' = {i \in 1 .. Len(od_vars) : od_vars[i].enabled}
                /\ object_record' # <<>>
                     => \A i \in 1 .. Len(od_vars) :
                           ~od_vars[i].enabled
                             => ~object_record'[i].has_value]_vars

\* =============================================================== receiver
\* A server's snapshots as a client without a player controller receives
\* and applies them.  A DataBuffer is the sequence of the values added to
\* it; a read past its end fails the buffer.
\* The most values a truncated buffer misses at its end.
MaxTruncate == 1

\* The server registered Y, then X; X has two variables.
ObjectNames == {"Y", "X"}
NetIdOf == [o \in ObjectNames |-> IF o = "Y" THEN 0 ELSE 1]
VarNamesOf == [o \in ObjectNames |-> IF o = "Y" THEN <<"c">> ELSE <<"a", "b">>]

RECURSIVE Flatten(_)
Flatten(ss) ==
    IF ss = <<>> THEN <<>>
    ELSE IF Len(ss) = 1 THEN ss[1]
    ELSE LET h == Len(ss) \div 2
         IN Flatten(SubSeq(ss, 1, h)) \o Flatten(SubSeq(ss, h + 1, Len(ss)))

\* ------------------------------------------------- server: generate_snapshot
\* ServerSynchronizer::generate_snapshot_object_data: what it adds to the
\* buffer for one object.
EncodeObjectData(od, mode, change) ==
    LET d == GenerateSnapshotObjectData(od.vars, mode, change)
    IN <<od.net_id, d.has_name>>
       \o (IF d.has_name THEN <<od.object_name>> ELSE <<>>)
       \o <<Len(od.vars) % 256>>
       \o Flatten([i \in 1 .. Len(od.vars) |->
                     IF d.vars[i].has_value
                     THEN <<TRUE, d.vars[i].value>> ELSE <<FALSE>>])

\* ServerSynchronizer::generate_snapshot; the host has no custom data.
GenerateSnapshot(p_force_full_snapshot, p_group) ==
    LET relevant == p_group.realtime
        deferred == p_group.deferred
        mode == IF p_force_full_snapshot THEN "FORCE_FULL" ELSE "NORMAL"
    IN (IF p_group.realtime_list_changed \/ p_force_full_snapshot
        THEN <<TRUE>>
             \o [i \in 1 .. Len(relevant) |-> relevant[i].od.net_id]
             \o <<ObjectNetId_NONE>>
        ELSE <<FALSE>>)
       \o <<FALSE>>
       \o (IF p_group.deferred_list_changed \/ p_force_full_snapshot
           THEN Flatten([i \in 1 .. Len(deferred) |->
                  IF deferred[i].unknown \/ p_force_full_snapshot
                  THEN EncodeObjectData(deferred[i].od,
                                        "FORCE_NODE_PATH_ONLY", NoChange)
                  ELSE <<>>])
           ELSE <<>>)
       \o Flatten([i \in 1 .. Len(relevant) |->
                     EncodeObjectData(relevant[i].od, mode,
                                      relevant[i].change)])
       \o <<ObjectNetId_NONE>>

\* process_snapshot_notificator: the buffer sent to a peer that has no
\* controller starts with the "no input id" value.
SentSnapshot(full, group) == <<UINT32_MAX>> \o GenerateSnapshot(full, group)

\* The server's ObjectData of X and of Y: b may be unregistered.
XDatas ==
    {[net_id |-> NetIdOf["X"], object_name |-> "X",
      vars |-> <<VarDescriptor(0, "a", a, TRUE),
                 VarDescriptor(1, "b", b.value, b.enabled)>>] :
       a \in Values,
       b \in {[value |-> 1, enabled |-> TRUE],
               [value |-> 0, enabled |-> FALSE]}}

YDatas ==
    {[net_id |-> NetIdOf["Y"], object_name |-> "Y",
      vars |-> <<VarDescriptor(0, "c", c, TRUE)>>] : c \in {1}}

\* What the global group has to tell since the last notification: whether
\* its lists changed and whether the objects are new to the client.
DeltaKinds ==
    {[list_changed |-> FALSE, unknown |-> FALSE],
     [list_changed |-> TRUE, unknown |-> FALSE],
     [list_changed |-> TRUE, unknown |-> TRUE]}

ChangeOf(od, kind) ==
    [unknown |-> kind.unknown,
     vars |-> {od.vars[i].name : i \in 1 .. Len(od.vars)}]

\* The sync groups of the server: X is a realtime object, Y is a realtime
\* or a deferred object or is not in the group.
GroupsOf(kind) ==
    LET Rt(od) == [od |-> od, change |-> ChangeOf(od, kind)]
        y0 == CHOOSE y \in YDatas : TRUE
        Group(rt, df) ==
            [realtime |-> rt, deferred |-> df,
             realtime_list_changed |-> kind.list_changed,
             deferred_list_changed |-> kind.list_changed]
    IN {Group(<<Rt(y), Rt(x)>>, <<>>) : x \in XDatas, y \in YDatas}
       \cup {Group(<<Rt(x)>>, <<[od |-> y0, unknown |-> kind.unknown]>>) :
               x \in XDatas}
       \cup {Group(<<Rt(x)>>, <<>>) : x \in XDatas}

\* The snapshots the server may send: full ones and deltas.
SnapshotInputs ==
    {[full |-> TRUE, group |-> g] :
       g \in GroupsOf([list_changed |-> FALSE, unknown |-> FALSE])}
    \cup {[full |-> FALSE, group |-> g] :
            g \in UNION {GroupsOf(kind) : kind \in DeltaKinds}}

\* ------------------------------------------------ client: parse_sync_data
NameAndVar(name, value) == [name |-> name, value |-> value]

\* A sequence resized to n elements, the new ones default constructed.
Resize(s, n, default) ==
    [i \in 1 .. n |-> IF i <= Len(s) THEN s[i] ELSE default]

\* An ObjectData the client does not hold.
NoObject ==
    [registered |-> FALSE, net_id |-> ObjectNetId_NONE, vars |-> <<>>,
     realtime_sync_enabled_on_client |-> FALSE]

\* SceneSynchronizerBase::get_object_data(net_id): the name of the object,
\* or "" for nullptr.
GetObjectData(objs, net_id) ==
    LET found == {o \in ObjectNames :
                    objs[o].registered /\ objs[o].net_id = net_id}
    IN IF found = {} THEN "" ELSE CHOOSE o \in found : TRUE

\* MapFunc::at(objects_names, net_id), "" for nullptr.
NameAt(names, net_id) ==
    LET found == {p \in names : p[1] = net_id}
    IN IF found = {} THEN "" ELSE (CHOOSE p \in found : TRUE)[2]

\* objects_names.insert: a std::map keeps the name it has.
NamesInsert(names, net_id, name) ==
    IF NameAt(names, net_id) # "" THEN names
    ELSE names \cup {<<net_id, name>>}

\* ClientSynchronizer::notify_server_full_snapshot_is_needed
NotifyServerFullSnapshotIsNeeded(p) ==
    IF p.notified THEN p
    ELSE [p EXCEPT !.notified = TRUE,
                   !.log = Append(@, Event("rpc_notify_need_full_snapshot",
                                           0, 0, 0, 0))]

\* SceneSynchronizerBase::register_app_object on the client: a new
\* ObjectData has no net id, and setup_synchronizer_for registers the
\* object's variables with the values the host has for them.
RegisterAppObjectOnClient(objs, name) ==
    IF objs[name].registered THEN objs
    ELSE [objs EXCEPT ![name] =
            [registered |-> TRUE, net_id |-> ObjectNetId_NONE,
             vars |-> [i \in 1 .. Len(VarNamesOf[name]) |->
                         VarDescriptor(i - 1, VarNamesOf[name][i], 0, TRUE)],
             realtime_sync_enabled_on_client |-> FALSE]]

FetchObjectData_always_notify(p, sc, net_id, object_name) ==
    LET by_id == GetObjectData(p.objects, net_id)
        known == NameAt(p.names, net_id)
        p1 == NotifyServerFullSnapshotIsNeeded(p)
        name == IF object_name = "" THEN known ELSE object_name
        p2 == [p1 EXCEPT !.log = Append(@, Event("fetch_app_object", name,
                                                 0, 0, 0))]
    IN IF by_id # "" THEN [p EXCEPT !.od = by_id]
       ELSE IF name \notin sc THEN [p2 EXCEPT !.od = ""]
       ELSE [p2 EXCEPT
               !.objects = [RegisterAppObjectOnClient(@, name)
                              EXCEPT ![name].net_id = net_id],
               !.od = name]

\* parse_sync_data, lines 2758-2796: the object of a record, looked up by
\* net id, then by name through the host.  p.od is its name, "" for none.
FetchObjectData(p, sc, net_id, object_name) ==
    LET by_id == GetObjectData(p.objects, net_id)
        known == NameAt(p.names, net_id)
        p1 == IF object_name = "" /\ known = ""
              THEN NotifyServerFullSnapshotIsNeeded(p) ELSE p
        name == IF object_name = "" THEN known ELSE object_name
        p2 == [p1 EXCEPT !.log = Append(@, Event("fetch_app_object", name,
                                                 0, 0, 0))]
    IN IF by_id # "" THEN [p EXCEPT !.od = by_id]
       ELSE IF name \notin sc THEN [p2 EXCEPT !.od = ""]
       ELSE [p2 EXCEPT
               !.objects = [RegisterAppObjectOnClient(@, name)
                              EXCEPT ![name].net_id = net_id],
               !.od = name]

\* parse_snapshot's "Parse node" callback.
ParseNode(snapshot, od) ==
    IF Len(snapshot.object_vars) <= od.net_id
    THEN [snapshot EXCEPT !.object_vars =
            Resize(@, od.net_id + 1, <<>>)]
    ELSE snapshot

\* parse_snapshot's "Parse variable" callback.
ParseVariable_first_slot(snapshot, od, p_var_id, p_value) ==
    LET n == od.net_id + 1
        resized == Resize(snapshot.object_vars[n], Len(od.vars),
                          NameAndVar("", NoVal))
    IN [snapshot EXCEPT !.object_vars[n] =
          [resized EXCEPT ![1] =
             NameAndVar(od.vars[p_var_id + 1].name, p_value)]]

ParseVariable(snapshot, od, p_var_id, p_value) ==
    LET n == od.net_id + 1
        resized == Resize(snapshot.object_vars[n], Len(od.vars),
                          NameAndVar("", NoVal))
    IN [snapshot EXCEPT !.object_vars[n] =
          [resized EXCEPT ![p_var_id + 1] =
             NameAndVar(od.vars[p_var_id + 1].name, p_value)]]

\* parse_sync_data, lines 2819-2827: the values of a skipped object are
\* read without a check; the position after them.
RECURSIVE SkipVars(_, _, _)
SkipVars(buf, pos, count) ==
    IF count = 0 \/ pos >= Len(buf) THEN pos
    ELSE IF buf[pos + 1] = TRUE
    THEN SkipVars(buf, IF pos + 1 < Len(buf) THEN pos + 2 ELSE pos + 1,
                  count - 1)
    ELSE SkipVars(buf, pos + 1, count - 1)

\* parse_sync_data, lines 2829-2845: the values of the object p.od, from
\* its slot i on.  p.failed is is_buffer_failed at an ERR_FAIL check.
RECURSIVE ParseVars(_, _, _)
ParseVars(buf, p, i) ==
    LET od == p.objects[p.od]
    IN IF i > Len(od.vars) THEN p
       ELSE IF p.pos >= Len(buf) THEN [p EXCEPT !.failed = TRUE]
       ELSE IF buf[p.pos + 1] = TRUE
       THEN IF p.pos + 1 >= Len(buf) THEN [p EXCEPT !.failed = TRUE]
            ELSE ParseVars(buf,
                   [p EXCEPT !.pos = @ + 2,
                             !.snapshot = ParseVariable(@, od, od.vars[i].id,
                                                        buf[p.pos + 2])],
                   i + 1)
       ELSE ParseVars(buf, [p EXCEPT !.pos = @ + 1], i + 1)

RECURSIVE ParseObjects(_, _, _)

\* parse_sync_data, line 2843: a failed read of a value ends the parse,
\* otherwise the next record is read.
ParseObjectsAfterVars(buf, p, sc) ==
    IF p.failed THEN p ELSE ParseObjects(buf, p, sc)

\* parse_sync_data, lines 2814-2846: the vars_count of a record is read,
\* then vars_count slots of a skipped object, or one slot for each
\* variable the client's ObjectData has.
ReadRecordVars(buf, p) ==
    IF p.od = ""
    THEN [p EXCEPT !.pos = SkipVars(buf, p.pos + 1, buf[p.pos + 1])]
    ELSE ParseVars(buf, [p EXCEPT !.pos = @ + 1], 1)

\* parse_sync_data, lines 2814-2847: the vars_count of a record and its
\* values; p is the state after the object of the record was fetched and
\* p.od = "" is skip_object.
ParseObjectVars(buf, p, sc) ==
    IF p.pos >= Len(buf) THEN [p EXCEPT !.failed = TRUE]
    ELSE IF p.od = ""
    THEN ParseObjects(buf, ReadRecordVars(buf, p), sc)
    ELSE ParseObjectsAfterVars(buf, ReadRecordVars(buf, p), sc)

\* parse_sync_data, lines 2798-2812: the "Parse node" callback for the
\* object that was fetched, then its variables.
ParseFetchedObject(buf, p, sc) ==
    ParseObjectVars(buf,
      IF p.od = "" THEN p
      ELSE [p EXCEPT !.snapshot = ParseNode(@, p.objects[p.od])],
      sc)

\* parse_sync_data, lines 2731-2847: the object records up to the end mark.
ParseObjects(buf, p, sc) ==
    IF p.pos >= Len(buf) THEN [p EXCEPT !.failed = TRUE]
    ELSE IF buf[p.pos + 1] = ObjectNetId_NONE THEN [p EXCEPT !.pos = @ + 1]
    ELSE IF p.pos + 1 >= Len(buf) THEN [p EXCEPT !.failed = TRUE]
    ELSE
      LET net_id == buf[p.pos + 1]
          has_object_name == buf[p.pos + 2]
      IN IF has_object_name /\ p.pos + 2 >= Len(buf)
         THEN [p EXCEPT !.failed = TRUE]
         ELSE
           LET object_name == IF has_object_name THEN buf[p.pos + 3] ELSE ""
               pos1 == IF has_object_name THEN p.pos + 3 ELSE p.pos + 2
           IN ParseFetchedObject(buf,
                FetchObjectData(
                  [p EXCEPT !.pos = pos1,
                            !.names = IF has_object_name
                                      THEN NamesInsert(@, net_id, object_name)
                                      ELSE @],
                  sc, net_id, object_name),
                sc)

\* parse_sync_data, lines 2708-2718: the ids of the active list.
RECURSIVE ReadActiveObjects(_, _)
ReadActiveObjects(buf, p) ==
    IF p.pos >= Len(buf) THEN [p EXCEPT !.failed = TRUE]
    ELSE IF buf[p.pos + 1] = ObjectNetId_NONE THEN [p EXCEPT !.pos = @ + 1]
    ELSE ReadActiveObjects(buf, [p EXCEPT !.pos = @ + 1,
                                          !.active = Append(@, buf[p.pos + 1])])

\* parse_sync_data, lines 2851-2872, with parse_snapshot's "Parse node
\* activation" callback: the objects that have a net id are told whether
\* the list names them; a request is sent for the ids left.
NodeActivation_only_enable(p, has_active_list_array) ==
    LET sorted == {o \in ObjectNames :
                     /\ p.objects[o].registered
                     /\ p.objects[o].net_id # ObjectNetId_NONE}
        ids == {p.active[i] : i \in 1 .. Len(p.active)}
        left == ids \ {p.objects[o].net_id : o \in sorted}
        p1 == IF has_active_list_array
              THEN [p EXCEPT !.objects =
                      [o \in ObjectNames |->
                         IF o \in sorted
                         THEN [p.objects[o] EXCEPT
                                 !.realtime_sync_enabled_on_client =
                                    @ \/ p.objects[o].net_id \in ids]
                         ELSE p.objects[o]]]
              ELSE p
    IN IF left # {}
       THEN NotifyServerFullSnapshotIsNeeded(p1) ELSE p1

NodeActivation(p, has_active_list_array) ==
    LET sorted == {o \in ObjectNames :
                     /\ p.objects[o].registered
                     /\ p.objects[o].net_id # ObjectNetId_NONE}
        ids == {p.active[i] : i \in 1 .. Len(p.active)}
        left == ids \ {p.objects[o].net_id : o \in sorted}
        p1 == IF has_active_list_array
              THEN [p EXCEPT !.objects =
                      [o \in ObjectNames |->
                         IF o \in sorted
                         THEN [p.objects[o] EXCEPT
                                 !.realtime_sync_enabled_on_client =
                                    p.objects[o].net_id \in ids]
                         ELSE p.objects[o]]]
              ELSE p
    IN IF left # {}
       THEN NotifyServerFullSnapshotIsNeeded(p1) ELSE p1

\* parse_sync_data, lines 2849-2872: the activation, reached when every
\* record was read.
ActivateParsed(p, has_active_list_array) ==
    IF p.failed THEN p ELSE NodeActivation(p, has_active_list_array)

\* parse_sync_data, lines 2721-2872: after the active list was read into
\* p, the custom data flag (read without a check), the object records and
\* the activation.
ParseAfterActiveList(buf, p, sc, has_active_list_array) ==
    IF p.failed THEN p
    ELSE ActivateParsed(
           ParseObjects(buf,
             [p EXCEPT !.pos = IF @ < Len(buf) THEN @ + 1 ELSE @], sc),
           has_active_list_array)

\* ClientSynchronizer::parse_sync_data with parse_snapshot's callbacks.
\* success is its result; the rest is what it wrote.
ParseSyncData(buf, p, sc) ==
    IF Len(buf) = 0 THEN p
    ELSE IF Len(buf) < 2 THEN [p EXCEPT !.failed = TRUE]
    ELSE ParseAfterActiveList(buf,
           IF buf[2] THEN ReadActiveObjects(buf, [p EXCEPT !.pos = 2])
           ELSE [p EXCEPT !.pos = 2],
           sc, buf[2])

\* ------------------------------------------- client: parse, store and apply
\* parse_snapshot's commit (3175-3189) and receive_snapshot's
\* store_controllers_snapshot (2126-2136), for the parse state p that
\* parse_sync_data left.
StoreParsed(p, st) ==
    [success |-> ~p.failed,
     enabled |-> st.enabled \/ st.want_to_enable,
     want_to_enable |-> FALSE,
     need_full_snapshot_notified |-> p.notified,
     objects_names |-> p.names,
     objects |-> p.objects,
     last_received_snapshot |->
         IF p.failed THEN st.last_received_snapshot ELSE p.snapshot,
     server_snapshots |->
         IF p.failed THEN st.server_snapshots
         ELSE StoreControllersSnapshot(p.snapshot, st.server_snapshots,
                                       FALSE),
     log |-> p.log]

\* ClientSynchronizer::parse_snapshot on the client state st, then
\* receive_snapshot's store_controllers_snapshot when the parse succeeded.
ParseAndStore(buf, st, sc) ==
    StoreParsed(
      ParseSyncData(buf,
        [pos |-> 0, failed |-> FALSE, names |-> st.objects_names,
         objects |-> st.objects,
         snapshot |-> [st.last_received_snapshot
                         EXCEPT !.input_id = UINT32_MAX],
         notified |-> FALSE, active |-> <<>>, od |-> "",
         log |-> IF st.want_to_enable
                 THEN <<Event("event_sync_started", 0, 0, 0, 0)>>
                 ELSE <<>>],
        sc),
      st)

\* The client's state, as ParseAndStore takes it.
ReceiverState ==
    [objects_names |-> objects_names, objects |-> c_objects,
     last_received_snapshot |-> last_received_snapshot,
     server_snapshots |-> server_snapshots, enabled |-> enabled,
     want_to_enable |-> want_to_enable]

\* The one ChangesListener of the scene watches the variable a of X for
\* SYNC_RECOVER changes.
ListenerWatches(o, v) == o = "X" /\ v = 1

\* apply_snapshot, lines 3271-3294, for the object named o: the writes to
\* the slots, and set_variable and change_event_add where the value
\* differs.
ApplyVars_always_set(nd, o, snap_vars) ==
    [vars |-> [v \in 1 .. Len(nd.vars) |->
                 IF v <= Len(snap_vars) /\ snap_vars[v].name # ""
                 THEN [nd.vars[v] EXCEPT !.value = snap_vars[v].value]
                 ELSE nd.vars[v]],
     log |-> Flatten([v \in 1 .. Len(snap_vars) |->
                 IF snap_vars[v].name # ""
                 THEN <<Event("set_variable", o, snap_vars[v].name,
                              snap_vars[v].value, 0),
                        Event("change_event_add", o, v - 1,
                              nd.vars[v].value, 0)>>
                 ELSE <<>>])]

ApplyVars(nd, o, snap_vars) ==
    [vars |-> [v \in 1 .. Len(nd.vars) |->
                 IF v <= Len(snap_vars) /\ snap_vars[v].name # ""
                 THEN [nd.vars[v] EXCEPT !.value = snap_vars[v].value]
                 ELSE nd.vars[v]],
     log |-> Flatten([v \in 1 .. Len(snap_vars) |->
                 IF /\ snap_vars[v].name # ""
                    /\ nd.vars[v].value # snap_vars[v].value
                 THEN <<Event("set_variable", o, snap_vars[v].name,
                              snap_vars[v].value, 0),
                        Event("change_event_add", o, v - 1,
                              nd.vars[v].value, 0)>>
                 ELSE <<>>])]

\* ClientSynchronizer::apply_snapshot with change_event_add and
\* change_events_flush: the objects after it, the listener's emitted flag
\* and the calls made.
ApplySnapshotObjects(snapshot, objs, em) ==
    LET Applies(n) ==
            LET o == GetObjectData(objs, n - 1)
            IN IF o = "" THEN FALSE
               ELSE objs[o].realtime_sync_enabled_on_client
        Applied(n) ==
            LET o == GetObjectData(objs, n - 1)
            IN ApplyVars(objs[o], o, snapshot.object_vars[n])
        writes == Flatten([n \in 1 .. Len(snapshot.object_vars) |->
                     IF Applies(n) THEN Applied(n).log ELSE <<>>])
        added == \E i \in 1 .. Len(writes) :
                    /\ writes[i].e = "change_event_add"
                    /\ ListenerWatches(writes[i].a, writes[i].b + 1)
        calls == ~(em /\ ~added)
    IN [objects |->
          [o \in ObjectNames |->
             IF /\ objs[o].registered
                /\ objs[o].net_id < Len(snapshot.object_vars)
                /\ objs[o].realtime_sync_enabled_on_client
             THEN [objs[o] EXCEPT !.vars = Applied(objs[o].net_id + 1).vars]
             ELSE objs[o]],
        emitted |-> TRUE,
        log |-> writes \o (IF calls
                           THEN <<Event("listener_func", 0, 0, 0, 0)>>
                           ELSE <<>>)]

ReceiverCall(op, a) ==
    /\ last_call' = [op |-> op, a |-> a, b |-> 0, c |-> 0]
    /\ UNCHANGED <<player_controller_node_data, input_buffers_counter,
                   current_input_id, frames_snapshot, val_v, val_w,
                   client_snapshots, last_checked_input, changes_listeners,
                   event_flag, recover_in_progress, reset_in_progress,
                   rewinding_in_progress, end_sync, sync_end_events, listener_log, flag_log,
                   deferred_sync_array, real_t_is_double, epoch_calls,
                   server_vars, registry_vars, recon, max_validated,
                   max_validated_here>>

\* ---------------------------------------------------------- receiver actions
\* SceneSynchronizerBase::rpc_receive_state: receive_snapshot of the buffer
\* the server sent, or of that buffer without its last `cut` values.
ReceiveServerSnapshot(input, cut) ==
    LET snap == SentSnapshot(input.full, input.group)
        buf == SubSeq(snap, 1, Len(snap) - cut)
    IN \E r \in {ParseAndStore(buf, ReceiverState, scene)} :
       /\ c_objects' = r.objects
       /\ objects_names' = r.objects_names
       /\ last_received_snapshot' = r.last_received_snapshot
       /\ server_snapshots' = r.server_snapshots
       /\ enabled' = r.enabled
       /\ want_to_enable' = r.want_to_enable
       /\ need_full_snapshot_notified' = r.need_full_snapshot_notified
       /\ log' = r.log
       /\ rx' = [kind |-> "snapshot", full |-> input.full,
                 group |-> input.group, cut |-> cut, success |-> r.success]
       /\ UNCHANGED <<scene, emitted>>
       /\ ReceiverCall("receive_snapshot", cut)

\* ClientSynchronizer::process without a player controller and with the
\* application leaving the variables alone: process_simulation finds no
\* change, process_received_server_state applies the queued snapshot.
ProcessQueuedSnapshot ==
    /\ IF server_snapshots = <<>>
       THEN /\ log' = <<>>
            /\ UNCHANGED <<c_objects, emitted, server_snapshots>>
       ELSE \E r \in {ApplySnapshotObjects(
                         server_snapshots[Len(server_snapshots)], c_objects,
                         emitted)} :
               /\ c_objects' = r.objects
               /\ emitted' = r.emitted
               /\ log' = r.log
               /\ server_snapshots' = <<>>
    /\ rx' = NoRx
    /\ UNCHANGED <<scene, objects_names, last_received_snapshot, enabled,
                   want_to_enable, need_full_snapshot_notified>>
    /\ ReceiverCall("process", Len(server_snapshots))

\* The two, for a client whose snapshots are not followed in pairs.
ReceiveSnapshotBuffer(input, cut) ==
    ReceiveServerSnapshot(input, cut) /\ UNCHANGED pair

ReceiverProcess ==
    ProcessQueuedSnapshot /\ UNCHANGED pair

\* ClientSynchronizer::set_enabled: it returns at once when enabled is
\* already p_enabled; enabling is postponed to the next snapshot, disabling
\* is done and broadcast.
SetEnabled(p_enabled) ==
    /\ IF enabled = p_enabled
       THEN UNCHANGED <<enabled, want_to_enable>>
       ELSE IF p_enabled
       THEN want_to_enable' = TRUE /\ UNCHANGED enabled
       ELSE enabled' = FALSE /\ want_to_enable' = FALSE
    /\ log' = IF enabled # p_enabled /\ ~p_enabled
              THEN <<Event("event_sync_paused", 0, 0, 0, 0)>>
              ELSE <<>>
    /\ rx' = NoRx
    /\ UNCHANGED <<scene, c_objects, objects_names, last_received_snapshot,
                   need_full_snapshot_notified, emitted, server_snapshots,
                   pair>>
    /\ ReceiverCall("set_enabled", IF p_enabled THEN 1 ELSE 0)

\* The ClientSynchronizer as constructed, which asks for a full snapshot;
\* the application registered X, and may have a Y to be resolved.
ReceiverInit ==
    /\ scene \in {{"X"}, {"X", "Y"}}
    /\ c_objects = RegisterAppObjectOnClient(
                     [o \in ObjectNames |-> NoObject], "X")
    /\ objects_names = {}
    /\ last_received_snapshot = NoSnapshot
    /\ enabled = TRUE
    /\ want_to_enable = FALSE
    /\ need_full_snapshot_notified = TRUE
    /\ emitted = TRUE
    /\ rx = NoRx

InitReceiver ==
    /\ NoClient /\ NoServer /\ NoRegistry /\ ReceiverInit /\ ObsInit /\ SinglePrecision
    /\ pair = NoPair

NextReceiver ==
    \/ \E input \in SnapshotInputs : ReceiveSnapshotBuffer(input, 0)
    \/ \E input \in SnapshotInputs, cut \in 1 .. MaxTruncate :
          input.full /\ ReceiveSnapshotBuffer(input, cut)
    \/ ReceiverProcess
    \/ \E p_enabled \in BOOLEAN : SetEnabled(p_enabled)

SpecReceiver == InitReceiver /\ [][NextReceiver]_vars

\* ------------------------------------------------ server: the snapshots
\* The change records a group may hold for X and for Y: the object new to
\* the clients or not, any of its variables changed.
ChangesOf(od) ==
    {[unknown |-> unknown, vars |-> names] :
       unknown \in BOOLEAN,
       names \in SUBSET {od.vars[i].name : i \in 1 .. Len(od.vars)}}

\* The groups generate_snapshot is given: X is a realtime object, Y is a
\* realtime or a deferred object or is not in the group; the lists changed
\* or not since the last notification.
GeneratedGroups ==
    LET y0 == CHOOSE y \in YDatas : TRUE
        x0 == CHOOSE x \in XDatas : TRUE
        Pairs == {<<x, cx>> : x \in {d \in XDatas : d.vars[1].value = 0},
                              cx \in ChangesOf(x0)}
        Lists == {[realtime |-> <<[od |-> y0, change |-> cy],
                                  [od |-> xc[1], change |-> xc[2]]>>,
                   deferred |-> <<>>] :
                    xc \in Pairs, cy \in ChangesOf(y0)}
                 \cup
                 {[realtime |-> <<[od |-> xc[1], change |-> xc[2]]>>,
                   deferred |-> df] :
                    xc \in Pairs,
                    df \in {<<>>, <<[od |-> y0, unknown |-> TRUE]>>,
                            <<[od |-> y0, unknown |-> FALSE]>>}}
    IN {[realtime |-> l.realtime, deferred |-> l.deferred,
         realtime_list_changed |-> rc, deferred_list_changed |-> dc] :
          l \in Lists, rc \in BOOLEAN, dc \in BOOLEAN}

\* ServerSynchronizer::generate_snapshot(p_force_full_snapshot, p_group):
\* the buffer it fills is kept.
GenerateSnapshotCall(p_force_full_snapshot, p_group) ==
    /\ rx' = [kind |-> "generated", full |-> p_force_full_snapshot,
              group |-> p_group,
              snapshot |-> GenerateSnapshot(p_force_full_snapshot, p_group)]
    /\ log' = <<>>
    /\ UNCHANGED <<scene, c_objects, objects_names, last_received_snapshot,
                   enabled, want_to_enable, need_full_snapshot_notified,
                   emitted, server_snapshots, pair>>
    /\ ReceiverCall("generate_snapshot", IF p_force_full_snapshot THEN 1 ELSE 0)

NextSnapshot ==
    \E p_force_full_snapshot \in BOOLEAN, p_group \in GeneratedGroups :
      GenerateSnapshotCall(p_force_full_snapshot, p_group)

SpecSnapshot == InitReceiver /\ [][NextSnapshot]_vars

\* ------------------------------------------- the variables of one record
\* The most variables the client's application registered for X.
MaxClientSlots == 3

\* vars_count is a std::uint8_t.
UINT8_MAX == 255

\* The names of the variables the client registers for X, in order.
ClientVarNames == <<"a", "b", "d", "e", "f">>

\* The client's ObjectData of X after its application registered n
\* variables and a snapshot gave it its net id.
ClientXData(n) ==
    [registered |-> TRUE, net_id |-> NetIdOf["X"],
     vars |-> [i \in 1 .. n |-> VarDescriptor(i - 1, ClientVarNames[i], 0,
                                              TRUE)],
     realtime_sync_enabled_on_client |-> TRUE]

\* The server's ObjectData of an X for which register_variable was called
\* with UINT8_MAX + 1 names.
WideXData ==
    [net_id |-> NetIdOf["X"], object_name |-> "X",
     vars |-> [i \in 1 .. UINT8_MAX + 1 |->
                 VarDescriptor(i - 1, ToString(i), 0, TRUE)]]

\* The records generate_snapshot_object_data writes for X.
RecordInputs ==
    {[od |-> od, mode |-> mode, change |-> change] :
       od \in XDatas, mode \in {"FORCE_FULL", "NORMAL"},
       change \in ChangesOf(CHOOSE x \in XDatas : TRUE)}
    \cup {[od |-> WideXData, mode |-> mode,
            change |-> [unknown |-> unknown, vars |-> {}]] :
            mode \in {"FORCE_FULL", "NORMAL"}, unknown \in BOOLEAN}

\* The server writes the record of X (generate_snapshot_object_data) and
\* the client reads it up to the end of its variables (parse_sync_data,
\* lines 2731-2846, the object fetched by its net id).
ParseRecordCall(input) ==
    LET rec == EncodeObjectData(input.od, input.mode, input.change)
        count_pos == IF rec[2] THEN 3 ELSE 2
        known == c_objects["X"].registered
        p0 == [pos |-> count_pos, failed |-> FALSE, names |-> objects_names,
               objects |-> c_objects,
               snapshot |-> IF known
                            THEN ParseNode(NoSnapshot, c_objects["X"])
                            ELSE NoSnapshot,
               notified |-> FALSE, active |-> <<>>,
               od |-> IF known THEN "X" ELSE "", log |-> <<>>]
    IN \E p1 \in {ReadRecordVars(rec, p0)} :
       /\ rx' = [kind |-> "record", mode |-> input.mode,
                 change |-> input.change, record |-> rec,
                 slots |-> Len(input.od.vars),
                 declared |-> rec[count_pos + 1],
                 read_end |-> p1.pos, failed |-> p1.failed]
       /\ log' = <<>>
       /\ UNCHANGED <<scene, c_objects, objects_names, last_received_snapshot,
                      enabled, want_to_enable, need_full_snapshot_notified,
                      emitted, server_snapshots, pair>>
       /\ ReceiverCall("parse_record", count_pos)

\* The client knows X with some number of registered variables, or does
\* not know it.
InitRecord ==
    /\ NoClient /\ NoServer /\ NoRegistry /\ ObsInit /\ SinglePrecision
    /\ pair = NoPair
    /\ scene = {"X"}
    /\ c_objects \in
         {[o \in ObjectNames |-> NoObject]}
         \cup {[o \in ObjectNames |->
                  IF o = "X" THEN ClientXData(n) ELSE NoObject] :
                  n \in 0 .. MaxClientSlots}
    /\ objects_names = {}
    /\ last_received_snapshot = NoSnapshot
    /\ enabled = TRUE
    /\ want_to_enable = FALSE
    /\ need_full_snapshot_notified = FALSE
    /\ emitted = TRUE
    /\ rx = NoRx

NextRecord == \E input \in RecordInputs : ParseRecordCall(input)

SpecRecord == InitRecord /\ [][NextRecord]_vars

\* ============================================ server: the deferred sync
\* The deferred objects of the group, and the most of them a tick may send.
MaxDeferredNodes == 3
MaxDeferredPerUpdate == 2
\* The ticks stop before a priority passes MaxPriority halves.
MaxPriority == 4

UINT16_MAX == 65535

\* _update_priority and update_rate are real_t: the model counts them in
\* halves, which a float adds without rounding; 1.0 is two halves.
PriorityOne == 2
StreamRates == {1, 2}

\* The net ids of the deferred objects: the last one is above UINT16_MAX.
DeferredNetId(i) == IF i = MaxDeferredNodes THEN UINT16_MAX + 1 ELSE i - 1

\* A SyncGroup::DeferredNodeInfo: the object (its net id, and whether
\* setup_deferred_sync gave it a collect_epoch_func), its rate and its
\* accumulated priority.
DeferredNodeInfo(net_id, has_func, update_rate) ==
    [od |-> [net_id |-> net_id, collect_epoch_func |-> has_func],
     update_rate |-> update_rate, update_priority |-> 0]

\* SyncGroup::sort_deferred_node_by_update_priority: the orders it may
\* leave the list in, the highest priority first.
SortedOrders(infos) ==
    {f \in [1 .. Len(infos) -> 1 .. Len(infos)] :
       /\ \A i, j \in 1 .. Len(infos) : i # j => f[i] # f[j]
       /\ \A i \in 1 .. Len(infos) - 1 :
             infos[f[i]].update_priority >= infos[f[i + 1]].update_priority}

\* process_deferred_sync, lines 1995-2008: whether the object is to be
\* collected.
DeferredSend_no_cap(info, update_node_count, max_deferred_nodes_per_update) ==
    /\ ~(info.update_priority < PriorityOne)
    /\ ~(info.od.net_id > UINT16_MAX)
    /\ info.od.collect_epoch_func

DeferredSend(info, update_node_count, max_deferred_nodes_per_update) ==
    /\ ~(info.update_priority < PriorityOne
          \/ update_node_count >= max_deferred_nodes_per_update)
    /\ ~(info.od.net_id > UINT16_MAX)
    /\ info.od.collect_epoch_func

\* process_deferred_sync, lines 1994-2048: the loop over the sorted list
\* from its element i on.  acc.nodes are the net ids written to the
\* global buffer; `failing` are the objects whose collect_epoch_func call
\* fails or collects more than UINT16_MAX bits in this tick.
RECURSIVE DeferredLoop(_, _, _, _)
DeferredLoop(acc, i, max_deferred_nodes_per_update, failing) ==
    IF i > Len(acc.infos) THEN acc
    ELSE
      LET info == acc.infos[i]
          send == DeferredSend(info, acc.update_node_count,
                               max_deferred_nodes_per_update)
          reset == [acc EXCEPT !.infos[i].update_priority = 0]
      IN DeferredLoop(
           IF send
           THEN IF info.od.net_id \in failing THEN reset
                ELSE [reset EXCEPT !.update_node_count = @ + 1,
                                   !.nodes = Append(@, info.od.net_id)]
           ELSE [acc EXCEPT !.infos[i].update_priority =
                              @ + info.update_rate],
           i + 1, max_deferred_nodes_per_update, failing)

\* process_deferred_sync for one group: the group after it and the net
\* ids of the packet.  The epoch, which the packet starts with, is the
\* tick counter of process().
ProcessDeferredGroup(group, max_deferred_nodes_per_update, failing, order) ==
    IF Len(group.peers) = 0 \/ Len(group.deferred) = 0
    THEN [group |-> group, nodes |-> <<>>]
    ELSE LET sorted == [i \in 1 .. Len(group.deferred) |->
                          group.deferred[order[i]]]
             done == DeferredLoop(
                       [infos |-> sorted, update_node_count |-> 0,
                        nodes |-> <<>>],
                       1, max_deferred_nodes_per_update, failing)
         IN [group |-> [group EXCEPT !.deferred = done.infos],
             nodes |-> done.nodes]

StreamNetIds == {DeferredNetId(i) : i \in 1 .. MaxDeferredNodes}

\* One tick: ServerSynchronizer::process_deferred_sync with the value
\* max_deferred_nodes_per_update has at this tick.
ProcessDeferredSync(max_deferred_nodes_per_update, failing) ==
    /\ \A i \in 1 .. Len(sync_groups[1].deferred) :
          sync_groups[1].deferred[i].update_priority
            + sync_groups[1].deferred[i].update_rate <= MaxPriority
    /\ \E order \in SortedOrders(sync_groups[1].deferred) :
       \E r \in {ProcessDeferredGroup(sync_groups[1],
                                      max_deferred_nodes_per_update,
                                      failing, order)} :
          /\ sync_groups' = <<r.group>>
          /\ sent' = IF r.nodes = <<>> THEN <<>>
                     ELSE [p \in {sync_groups[1].peers[i] :
                                    i \in 1 .. Len(sync_groups[1].peers)}
                             |-> r.nodes]
    /\ UNCHANGED <<peer_data, objects, crashed, controllers, peer_dirty>>
    /\ ServerCall("process_deferred_sync", max_deferred_nodes_per_update,
                  failing, 0)

\* ServerSynchronizer::sync_group_set_deferred_update_rate for the i-th
\* deferred object of the group.
StreamSetDeferredUpdateRate(i, rate) ==
    /\ i \in 1 .. Len(sync_groups[1].deferred)
    /\ sync_groups[1].deferred[i].update_rate # rate
    /\ sync_groups' = [sync_groups EXCEPT ![1].deferred[i].update_rate = rate]
    /\ sent' = <<>>
    /\ UNCHANGED <<peer_data, objects, crashed, controllers, peer_dirty>>
    /\ ServerCall("sync_group_set_deferred_update_rate", i, {}, rate)

\* The global group holds deferred objects, each set up or not for the
\* deferred sync, and has a subscriber or none.
StreamInit ==
    /\ peer_data = <<>>
    /\ \E n \in 1 .. MaxDeferredNodes :
       \E funcs \in [1 .. n -> BOOLEAN] :
       \E peers \in {<<>>, <<2>>} :
          sync_groups =
            <<[NewSyncGroup EXCEPT
                 !.deferred = [i \in 1 .. n |->
                                 DeferredNodeInfo(DeferredNetId(i), funcs[i],
                                                  PriorityOne)],
                 !.peers = peers]>>
    /\ objects = {}
    /\ crashed = FALSE
    /\ sent = <<>>
    /\ prev_call = NoCall
    /\ controllers = <<>>
    /\ peer_dirty = FALSE

InitStream ==
    /\ NoClient /\ StreamInit /\ NoRegistry /\ NoReceiver /\ ObsInit /\ SinglePrecision
    /\ pair = NoPair

NextStream ==
    \/ \E max_deferred_nodes_per_update \in 1 .. MaxDeferredPerUpdate,
          failing \in SUBSET StreamNetIds :
          ProcessDeferredSync(max_deferred_nodes_per_update, failing)
    \/ \E i \in 1 .. MaxDeferredNodes, rate \in StreamRates :
          StreamSetDeferredUpdateRate(i, rate)

SpecStream == InitStream /\ [][NextStream]_vars

\* ============================================== the roles of a controller
\* The objects that carry a NetworkedControllerBase.
MaxRoleObjects == 2

CONTROLLER_TYPE_NULL == "NULL"
CONTROLLER_TYPE_NONETWORK == "NONETWORK"
CONTROLLER_TYPE_PLAYER == "PLAYER"
CONTROLLER_TYPE_AUTONOMOUS_SERVER == "AUTONOMOUS_SERVER"
CONTROLLER_TYPE_SERVER == "SERVER"
CONTROLLER_TYPE_DOLL == "DOLL"

\* A NetworkedControllerBase as constructed: no Controller, server_controlled
\* as the application set it.
NewNetworkedController(server_controlled) ==
    [controller_type |-> CONTROLLER_TYPE_NULL, controller |-> FALSE,
     server_controlled |-> server_controlled]

\* What network_interface answers at a call: is_local_peer_networked,
\* is_local_peer_server, and for the unit is_local_peer_authority_of_this_unit.
NetworkAnswers ==
    [networked : BOOLEAN, server : BOOLEAN, authority : BOOLEAN]

\* reset_controller, lines 1389-1405: the type of the new Controller.
NewControllerType_authority_only(net, server_controlled) ==
    IF ~net.networked THEN CONTROLLER_TYPE_NONETWORK
    ELSE IF net.server
    THEN IF server_controlled THEN CONTROLLER_TYPE_AUTONOMOUS_SERVER
         ELSE CONTROLLER_TYPE_SERVER
    ELSE IF net.authority
    THEN CONTROLLER_TYPE_PLAYER
    ELSE CONTROLLER_TYPE_DOLL

NewControllerType(net, server_controlled) ==
    IF ~net.networked THEN CONTROLLER_TYPE_NONETWORK
    ELSE IF net.server
    THEN IF server_controlled THEN CONTROLLER_TYPE_AUTONOMOUS_SERVER
         ELSE CONTROLLER_TYPE_SERVER
    ELSE IF net.authority /\ server_controlled = FALSE
    THEN CONTROLLER_TYPE_PLAYER
    ELSE CONTROLLER_TYPE_DOLL

\* SceneSynchronizerBase::reset_controller for the controller of od, with
\* the synchronizer_manager set or not and the answers of the network
\* interface; the calls it makes are logged.
ResetController(od, manager, net) ==
    LET deleted == IF controllers[od].controller
                   THEN [controllers[od] EXCEPT
                           !.controller = FALSE,
                           !.controller_type = CONTROLLER_TYPE_NULL]
                   ELSE controllers[od]
        notified == IF synchronizer_type # "NULL"
                    THEN <<Event("on_controller_reset", od, 0, 0, 0)>>
                    ELSE <<>>
    IN /\ od \in DOMAIN controllers
       /\ IF ~manager
          THEN /\ controllers' = [controllers EXCEPT ![od] = deleted]
               /\ log' = notified
               /\ UNCHANGED peer_dirty
          ELSE /\ controllers' =
                    [controllers EXCEPT ![od] =
                       [deleted EXCEPT
                          !.controller = TRUE,
                          !.controller_type =
                             NewControllerType(net,
                                               deleted.server_controlled)]]
               /\ peer_dirty' = TRUE
               /\ log' = <<Event("ready", od, 0, 0, 0),
                           Event("notify_controller_reset", od, 0, 0, 0)>>
                         \o notified
       /\ last_call' = [op |-> "reset_controller", a |-> od,
                        b |-> manager, c |-> net]
       /\ UNCHANGED <<peer_data, sync_groups, objects, crashed, sent,
                      prev_call, synchronizer_type, generate_id, od_vars,
                      host, od_change, object_record, pulled>>
       /\ UNCHANGED <<client_vars, receiver_vars, pair, listener_log, flag_log,
                      epoch_calls, recon, max_validated, max_validated_here>>

\* The application changes the server_controlled property of a controller
\* that has not been reset since.
SetServerControlled(od, p_server_controlled) ==
    /\ od \in DOMAIN controllers
    /\ controllers[od].server_controlled # p_server_controlled
    /\ controllers' = [controllers EXCEPT
                         ![od].server_controlled = p_server_controlled]
    /\ log' = <<>>
    /\ last_call' = [op |-> "set_server_controlled", a |-> od,
                     b |-> p_server_controlled, c |-> 0]
    /\ UNCHANGED <<peer_data, sync_groups, objects, crashed, sent,
                   prev_call, peer_dirty, synchronizer_type, generate_id,
                   od_vars, host, od_change, object_record, pulled>>
    /\ UNCHANGED <<client_vars, receiver_vars, pair, listener_log, flag_log,
                   epoch_calls, recon, max_validated, max_validated_here>>

\* The controllers are constructed; a synchronizer of some role exists, or
\* none.
InitRoles ==
    /\ NoClient /\ NoReceiver /\ ObsInit /\ SinglePrecision
    /\ pair = NoPair
    /\ peer_data = <<>>
    /\ sync_groups = <<>>
    /\ objects = {}
    /\ crashed = FALSE
    /\ sent = <<>>
    /\ prev_call = NoCall
    /\ controllers \in [1 .. MaxRoleObjects ->
                          {NewNetworkedController(sc) : sc \in BOOLEAN}]
    /\ peer_dirty = FALSE
    /\ synchronizer_type \in {"NULL"} \cup SynchronizerTypes
    /\ generate_id = FALSE
    /\ od_vars = <<>>
    /\ host = <<>>
    /\ od_change = NoChange
    /\ object_record = <<>>
    /\ pulled = {}

NextRoles ==
    \/ \E od \in 1 .. MaxRoleObjects, manager \in BOOLEAN,
          net \in NetworkAnswers : ResetController(od, manager, net)
    \/ \E od \in 1 .. MaxRoleObjects, p_server_controlled \in BOOLEAN :
          SetServerControlled(od, p_server_controlled)

SpecRoles == InitRoles /\ [][NextRoles]_vars

\* ----------------------------------- changes listeners and removed objects
\* The registered objects and the listeners of this part.
MaxTrackObjects == 2
MaxTrackListeners == 2

\* The objects of this part have one variable each, of id 0.
TrackObjects == 1 .. MaxTrackObjects

\* The ObjectData register_app_object and register_variable make.
NewTrackedObject == [value |-> 0, enabled |-> TRUE, changes_listeners |-> <<>>]

\* The ListeningVariable track_variables_changes fills for the variable 0
\* of an object.
ListeningVariable(od) == [node_data |-> od, var_id |-> 0, old_set |-> FALSE]

\* The lists of objects the application passes to track_variables_changes.
WatchLists ==
    {<<a>> : a \in TrackObjects} \cup
    {<<a, b>> : a \in TrackObjects, b \in TrackObjects}

RECURSIVE ConnectListener(_, _, _, _)
\* The loop of track_variables_changes that pushes the listener to the
\* changes_listeners of each variable it watches, from the i-th on.
ConnectListener(ods, p_object_ids, listener, i) ==
    IF i > Len(p_object_ids) THEN ods
    ELSE ConnectListener(
           [ods EXCEPT ![p_object_ids[i]].changes_listeners =
                          Append(@, listener)],
           p_object_ids, listener, i + 1)

\* track_variables_changes: an object that is not registered makes the
\* call fail and nothing is kept; otherwise the listener is added and
\* connected to the variables.
TrackObjectsChanges(p_object_ids) ==
    /\ ~crashed
    /\ Len(changes_listeners) < MaxTrackListeners
    /\ \E is_valid \in {\A i \in DOMAIN p_object_ids :
                          p_object_ids[i] \in objects} :
         /\ changes_listeners' =
              IF is_valid
              THEN Append(changes_listeners,
                          [watching_vars |->
                             [i \in DOMAIN p_object_ids |->
                                ListeningVariable(p_object_ids[i])],
                           old_values |->
                             [i \in DOMAIN p_object_ids |-> NoVal],
                           emitted |-> TRUE])
              ELSE changes_listeners
         /\ od_vars' =
              IF is_valid
              THEN ConnectListener(od_vars, p_object_ids,
                                   Len(changes_listeners) + 1, 1)
              ELSE od_vars
         /\ last_call' = [op |-> "track_variables_changes",
                          a |-> Len(p_object_ids),
                          b |-> IF is_valid THEN 1 ELSE 0, c |-> 0]
    /\ listener_log' = <<>>
    /\ flag_log' = <<>>
    /\ UNCHANGED <<objects, host, crashed>>
    /\ UNCHANGED <<player_controller_node_data, input_buffers_counter,
                   current_input_id, frames_snapshot, val_v, val_w,
                   client_snapshots, server_snapshots, last_checked_input,
                   event_flag, recover_in_progress, reset_in_progress,
                   rewinding_in_progress, end_sync, sync_end_events, deferred_sync_array,
                   real_t_is_double, peer_data, sync_groups, sent, prev_call,
                   controllers, peer_dirty, synchronizer_type, generate_id,
                   od_change, object_record, pulled, receiver_vars, pair,
                   log, recon, max_validated, max_validated_here,
                   epoch_calls>>

\* What the loop of drop_object_data leaves of a watched variable of a
\* listener: `for (auto wv : cl->watching_vars)` copies the element, and
\* node_data and var_id are cleared on the copy.
DropWatching(wv, od) == wv

\* The same for the loop of unregister_variable, `for (ListeningVariable lv
\* : cl->watching_vars)`.
UnregisterWatching(lv, od, var_id) == lv

\* drop_object_data, which unregister_app_object, on_app_object_removed and
\* clear call for a registered object: the listeners are visited and the
\* ObjectData is deallocated, with the changes_listeners of its variables.
DropObjectData(od) ==
    /\ ~crashed
    /\ od \in objects
    /\ changes_listeners' =
         [l \in DOMAIN changes_listeners |->
            [changes_listeners[l] EXCEPT
               !.watching_vars =
                  [v \in DOMAIN @ |-> DropWatching(@[v], od)]]]
    /\ objects' = objects \ {od}
    /\ od_vars' = [o \in objects \ {od} |-> od_vars[o]]
    /\ host' = [o \in objects \ {od} |-> host[o]]
    /\ listener_log' = <<>>
    /\ flag_log' = <<>>
    /\ last_call' = [op |-> "drop_object_data", a |-> od, b |-> 0, c |-> 0]
    /\ UNCHANGED crashed
    /\ UNCHANGED <<player_controller_node_data, input_buffers_counter,
                   current_input_id, frames_snapshot, val_v, val_w,
                   client_snapshots, server_snapshots, last_checked_input,
                   event_flag, recover_in_progress, reset_in_progress,
                   rewinding_in_progress, end_sync, sync_end_events, deferred_sync_array,
                   real_t_is_double, peer_data, sync_groups, sent, prev_call,
                   controllers, peer_dirty, synchronizer_type, generate_id,
                   od_change, object_record, pulled, receiver_vars, pair,
                   log, recon, max_validated, max_validated_here,
                   epoch_calls>>

\* unregister_variable of the variable of a registered object: the
\* variable is disabled, the listeners of the variable are visited, and the
\* variable forgets them.
UnregisterTrackedVariable(od) ==
    /\ ~crashed
    /\ od \in objects
    /\ changes_listeners' =
         [l \in DOMAIN changes_listeners |->
            IF \E i \in DOMAIN od_vars[od].changes_listeners :
                 od_vars[od].changes_listeners[i] = l
            THEN [changes_listeners[l] EXCEPT
                    !.watching_vars =
                       [v \in DOMAIN @ |-> UnregisterWatching(@[v], od, 0)]]
            ELSE changes_listeners[l]]
    /\ od_vars' = [od_vars EXCEPT ![od].enabled = FALSE,
                                  ![od].changes_listeners = <<>>]
    /\ listener_log' = <<>>
    /\ flag_log' = <<>>
    /\ last_call' = [op |-> "unregister_variable", a |-> od, b |-> 0,
                     c |-> 0]
    /\ UNCHANGED <<objects, host, crashed>>
    /\ UNCHANGED <<player_controller_node_data, input_buffers_counter,
                   current_input_id, frames_snapshot, val_v, val_w,
                   client_snapshots, server_snapshots, last_checked_input,
                   event_flag, recover_in_progress, reset_in_progress,
                   rewinding_in_progress, end_sync, sync_end_events, deferred_sync_array,
                   real_t_is_double, peer_data, sync_groups, sent, prev_call,
                   controllers, peer_dirty, synchronizer_type, generate_id,
                   od_change, object_record, pulled, receiver_vars, pair,
                   log, recon, max_validated, max_validated_here,
                   epoch_calls>>

\* The application writes the variable of one of its objects.
HostSet(od, value) ==
    /\ ~crashed
    /\ od \in objects
    /\ host[od] # value
    /\ host' = [host EXCEPT ![od] = value]
    /\ listener_log' = <<>>
    /\ flag_log' = <<>>
    /\ last_call' = [op |-> "host_set", a |-> od, b |-> value, c |-> 0]
    /\ UNCHANGED <<objects, od_vars, changes_listeners, crashed>>
    /\ UNCHANGED <<player_controller_node_data, input_buffers_counter,
                   current_input_id, frames_snapshot, val_v, val_w,
                   client_snapshots, server_snapshots, last_checked_input,
                   event_flag, recover_in_progress, reset_in_progress,
                   rewinding_in_progress, end_sync, sync_end_events, deferred_sync_array,
                   real_t_is_double, peer_data, sync_groups, sent, prev_call,
                   controllers, peer_dirty, synchronizer_type, generate_id,
                   od_change, object_record, pulled, receiver_vars, pair,
                   log, recon, max_validated, max_validated_here,
                   epoch_calls>>

\* change_event_add for one listener of the changed variable, the
\* listeners listening to the batch's flag: it is to emit, and the old
\* value goes to the slots whose var_id is the variable's.
TrackOnAdd(listener, var_id, p_old) ==
    [listener EXCEPT
       !.emitted = FALSE,
       !.old_values =
          [v \in DOMAIN @ |->
             IF listener.watching_vars[v].var_id = var_id THEN p_old
             ELSE @[v]]]

RECURSIVE TrackAddAll(_, _, _, _)
\* change_event_add's loop over the changes_listeners of the variable.
TrackAddAll(listeners, of_var, i, p_old) ==
    IF i > Len(of_var) THEN listeners
    ELSE TrackAddAll([listeners EXCEPT ![of_var[i]] = TrackOnAdd(@, 0, p_old)],
                     of_var, i + 1, p_old)

\* pull_node_changes of one object: an enabled variable whose value
\* differs from the application's is updated and its change is added.
TrackPull(st, od) ==
    IF st.ods[od].enabled /\ st.ods[od].value # host[od]
    THEN [ods |-> [st.ods EXCEPT ![od].value = host[od]],
          listeners |-> TrackAddAll(st.listeners,
                                    st.ods[od].changes_listeners, 1,
                                    st.ods[od].value)]
    ELSE st

RECURSIVE TrackPullAll(_, _)
\* detect_and_signal_changed_variables' loop over the registered objects.
TrackPullAll(st, od) ==
    IF od > MaxTrackObjects THEN st
    ELSE TrackPullAll(IF od \in objects THEN TrackPull(st, od) ELSE st,
                      od + 1)

\* Whether reading the slots of a listener dereferences an ObjectData that
\* was deallocated.
ReadsDeallocated(listener) ==
    \E v \in DOMAIN listener.watching_vars :
      listener.watching_vars[v].node_data \notin objects

\* change_events_flush for one listener that is to emit: every slot whose
\* old_set is false takes node_data->vars[var_id].var.value.  Reading
\* through a pointer to a deallocated ObjectData is undefined: it yields
\* whatever the memory holds.
TrackFlushListener(listener, ods, garbage) ==
    IF listener.emitted THEN listener
    ELSE [listener EXCEPT
            !.emitted = TRUE,
            !.old_values =
               [v \in DOMAIN @ |->
                  IF listener.watching_vars[v].old_set THEN @[v]
                  ELSE IF listener.watching_vars[v].node_data \in objects
                  THEN ods[listener.watching_vars[v].node_data].value
                  ELSE garbage]]

\* What change_events_flush did for a listener: whether listener_func was
\* called, and the ObjectData each slot was read from.
FlushRecord(listener, flushed) ==
    [called |-> ~listener.emitted,
     reads |-> IF listener.emitted THEN <<>>
               ELSE [v \in DOMAIN listener.watching_vars |->
                       listener.watching_vars[v].node_data],
     old_values |-> flushed.old_values]

\* process: detect_and_signal_changed_variables, that is change_events_begin,
\* the pull of every object, and change_events_flush.  The undefined read
\* either aborts the process or goes on with the garbage.
TrackProcess(garbage, aborts) ==
    /\ ~crashed
    /\ \E st \in {TrackPullAll([ods |-> od_vars,
                                listeners |-> changes_listeners], 1)} :
         /\ od_vars' = st.ods
         /\ changes_listeners' =
              [l \in DOMAIN st.listeners |->
                 TrackFlushListener(st.listeners[l], st.ods, garbage)]
         /\ flag_log' = <<>>
         /\ listener_log' =
              [l \in DOMAIN st.listeners |->
                 FlushRecord(st.listeners[l],
                             TrackFlushListener(st.listeners[l], st.ods,
                                                garbage))]
         /\ crashed' = (aborts /\ \E l \in DOMAIN st.listeners :
                                    /\ ~st.listeners[l].emitted
                                    /\ ReadsDeallocated(st.listeners[l]))
    /\ last_call' = [op |-> "process", a |-> 0, b |-> 0, c |-> 0]
    /\ UNCHANGED <<objects, host>>
    /\ UNCHANGED <<player_controller_node_data, input_buffers_counter,
                   current_input_id, frames_snapshot, val_v, val_w,
                   client_snapshots, server_snapshots, last_checked_input,
                   event_flag, recover_in_progress, reset_in_progress,
                   rewinding_in_progress, end_sync, sync_end_events, deferred_sync_array,
                   real_t_is_double, peer_data, sync_groups, sent, prev_call,
                   controllers, peer_dirty, synchronizer_type, generate_id,
                   od_change, object_record, pulled, receiver_vars, pair,
                   log, recon, max_validated, max_validated_here,
                   epoch_calls>>

\* The objects are registered with their variable; nothing is tracked.
InitTracking ==
    /\ NoClient /\ NoReceiver /\ ObsInit /\ SinglePrecision
    /\ pair = NoPair
    /\ peer_data = <<>>
    /\ sync_groups = <<>>
    /\ objects = TrackObjects
    /\ crashed = FALSE
    /\ sent = <<>>
    /\ prev_call = NoCall
    /\ controllers = <<>>
    /\ peer_dirty = FALSE
    /\ synchronizer_type = "NONETWORK"
    /\ generate_id = FALSE
    /\ od_vars = [od \in TrackObjects |-> NewTrackedObject]
    /\ host = [od \in TrackObjects |-> 0]
    /\ od_change = NoChange
    /\ object_record = <<>>
    /\ pulled = {}

NextTracking ==
    \/ \E p_object_ids \in WatchLists : TrackObjectsChanges(p_object_ids)
    \/ \E od \in TrackObjects : DropObjectData(od)
    \/ \E od \in TrackObjects : UnregisterTrackedVariable(od)
    \/ \E od \in TrackObjects, value \in WValues : HostSet(od, value)
    \/ \E garbage \in WValues, aborts \in BOOLEAN :
         TrackProcess(garbage, aborts)

SpecTracking == InitTracking /\ [][NextTracking]_vars

\* ------------------------------------------------- two snapshots in a row
\* The snapshots a client receives before the two that are followed.
MaxPrologue == 1

\* process_received_server_state on what receive_snapshot left: the
\* objects after the newest queued snapshot was applied.
ApplyQueued(r) ==
    IF r.server_snapshots = <<>> THEN r.objects
    ELSE ApplySnapshotObjects(
           r.server_snapshots[Len(r.server_snapshots)], r.objects,
           TRUE).objects

\* receive_snapshot of the full snapshot input on the client state st,
\* then a process: the objects the client ends with.
AloneRun(st, input, sc) ==
    ApplyQueued(ParseAndStore(SentSnapshot(TRUE, input.group), st, sc))

\* A snapshot received before the pair.
PairPrologue(input) ==
    /\ pair.stage = "start"
    /\ pair.prologue < MaxPrologue
    /\ ReceiveServerSnapshot(input, 0)
    /\ pair' = [pair EXCEPT !.prologue = @ + 1]

\* A process before the pair.
PairPrologueProcess ==
    /\ pair.stage = "start"
    /\ pair.prologue > 0
    /\ server_snapshots # <<>>
    /\ ProcessQueuedSnapshot
    /\ UNCHANGED pair

\* The first full snapshot s1 is received; the state it found is kept.
PairReceiveFirst(s1) ==
    /\ pair.stage = "start"
    /\ s1.full
    /\ ReceiveServerSnapshot(s1, 0)
    /\ pair' = [stage |-> "s1", prologue |-> pair.prologue,
                before |-> ReceiverState]

\* s1 is applied.
PairApplyFirst ==
    /\ pair.stage = "s1"
    /\ ProcessQueuedSnapshot
    /\ pair' = [pair EXCEPT !.stage = "applied1"]

\* The second full snapshot s2 is received; what s2 alone would have
\* left, received and applied in the state s1 found, is kept.
PairReceiveSecond(s2) ==
    /\ pair.stage = "applied1"
    /\ s2.full
    /\ ReceiveServerSnapshot(s2, 0)
    /\ pair' = [stage |-> "s2", prologue |-> pair.prologue,
                s2 |-> s2.group,
                alone |-> AloneRun(pair.before, s2, scene)]

\* s2 is applied.
PairApplySecond ==
    /\ pair.stage = "s2"
    /\ ProcessQueuedSnapshot
    /\ pair' = [pair EXCEPT !.stage = "done"]

InitPair ==
    /\ NoClient /\ NoServer /\ NoRegistry /\ ReceiverInit /\ ObsInit /\ SinglePrecision
    /\ pair = [stage |-> "start", prologue |-> 0]

NextPair ==
    \/ \E input \in SnapshotInputs : PairPrologue(input)
    \/ PairPrologueProcess
    \/ \E s1 \in SnapshotInputs : PairReceiveFirst(s1)
    \/ PairApplyFirst
    \/ \E s2 \in SnapshotInputs : PairReceiveSecond(s2)
    \/ PairApplySecond

SpecPair == InitPair /\ [][NextPair]_vars

\* ---------------------------------------------------------- receiver claims
\* The objects of a group, realtime and deferred.
GroupObjects(group) ==
    {group.realtime[i].od : i \in 1 .. Len(group.realtime)}
    \cup {group.deferred[i].od : i \in 1 .. Len(group.deferred)}

RealtimeObjects(group) ==
    {group.realtime[i].od : i \in 1 .. Len(group.realtime)}

\* The client's ObjectData has the slots of the server's: the same ids and
\* names in the same order.
SameSlots(nd, od) ==
    /\ nd.registered
    /\ Len(nd.vars) = Len(od.vars)
    /\ \A v \in 1 .. Len(od.vars) :
          nd.vars[v].id = od.vars[v].id /\ nd.vars[v].name = od.vars[v].name

\* The received snapshot holds for the variable v of od the value the
\* server has, under od's net id and v's slot.
HoldsValue(snapshot, od, v) ==
    /\ od.net_id < Len(snapshot.object_vars)
    /\ v <= Len(snapshot.object_vars[od.net_id + 1])
    /\ snapshot.object_vars[od.net_id + 1][v] =
          NameAndVar(od.vars[v].name, od.vars[v].value)

Logged(events, e) == \E i \in 1 .. Len(events) : events[i].e = e

\* C15: when a client whose registry holds the objects of a group with the
\* server's variable slots receives a full snapshot of the group, whole,
\* last_received_snapshot holds, for every enabled variable of every
\* realtime object of the group, the value the server encoded, under the
\* object's net id and the variable's slot, and the client's object has
\* that net id.
C15_FullSnapshotRoundTrip ==
    [][(/\ last_call'.op = "receive_snapshot"
        /\ rx'.full
        /\ rx'.cut = 0
        /\ \A od \in GroupObjects(rx'.group) :
              SameSlots(c_objects[od.object_name], od))
          => \A od \in RealtimeObjects(rx'.group) :
                /\ c_objects'[od.object_name].net_id = od.net_id
                /\ \A v \in 1 .. Len(od.vars) :
                      od.vars[v].enabled
                        => HoldsValue(last_received_snapshot', od, v)]_vars

\* A full snapshot of Y and X, both known to the client by net id, was
\* received whole, and the second slot of X holds b's value.
C15_Witness ==
    /\ last_call.op = "receive_snapshot"
    /\ rx.full
    /\ rx.cut = 0
    /\ Len(rx.group.realtime) = 2
    /\ ~Logged(log, "fetch_app_object")
    /\ rx.group.realtime[2].od.vars[2].enabled
    /\ rx.group.realtime[2].od.vars[1].value = 0
    /\ last_received_snapshot.object_vars[2][2] = NameAndVar("b", 1)
    /\ last_received_snapshot.object_vars[2][1] = NameAndVar("a", 0)
    /\ last_received_snapshot.object_vars[1][1] = NameAndVar("c", 1)

\* C16: when a process has applied a server snapshot, applying the same
\* snapshot once more writes no host variable, changes no stored value,
\* adds no change event and calls no listener.
C16_SecondApplyIsNoOp ==
    [][(last_call'.op = "process" /\ server_snapshots # <<>>)
          => LET again == ApplySnapshotObjects(
                            server_snapshots[Len(server_snapshots)],
                            c_objects', emitted')
             IN /\ again.log = <<>>
                /\ again.objects = c_objects'
                /\ again.emitted = emitted']_vars

\* A process applied a snapshot that changed a variable and called the
\* listener.
C16_Witness ==
    /\ last_call.op = "process"
    /\ last_call.a > 0
    /\ Logged(log, "set_variable")
    /\ Logged(log, "listener_func")

\* C17 as stated: after two full snapshots s1 and s2 were received and
\* applied in that order, the client's objects, their variables and their
\* realtime-enabled flags, are what s2 alone would have left.
C17_SecondSnapshotAlone ==
    pair.stage = "done" => c_objects = pair.alone

\* C17: after two full snapshots s1 and s2 were received and applied in
\* that order, every variable s2 carries a value for, and the
\* realtime-enabled flag of every object, are what s2 alone would have
\* left.
C17_SecondSnapshotCovers ==
    pair.stage = "done"
      => /\ \A od \in RealtimeObjects(pair.s2) :
               /\ c_objects[od.object_name].registered
                    = pair.alone[od.object_name].registered
               /\ c_objects[od.object_name].registered
                    => \A v \in 1 .. Len(od.vars) :
                          od.vars[v].enabled
                            => c_objects[od.object_name].vars[v] =
                                 pair.alone[od.object_name].vars[v]
         /\ \A o \in ObjectNames :
               c_objects[o].realtime_sync_enabled_on_client =
                 pair.alone[o].realtime_sync_enabled_on_client

\* s1 and s2 were applied; s2 changed a of X and s1 had made Y active,
\* which s2 does not hold.
C17_Witness ==
    /\ pair.stage = "done"
    /\ Len(pair.s2.realtime) = 1
    /\ c_objects["Y"].registered
    /\ ~c_objects["Y"].realtime_sync_enabled_on_client
    /\ c_objects["Y"].vars[1].value = 1
    /\ Logged(log, "set_variable")
    /\ c_objects["X"].vars[1].value = 1

\* The object records a snapshot of the group carries: the object and what
\* generate_snapshot_object_data wrote for it.
Carried(full, group) ==
    {[od |-> group.realtime[i].od,
      d |-> GenerateSnapshotObjectData(
              group.realtime[i].od.vars,
              IF full THEN "FORCE_FULL" ELSE "NORMAL",
              group.realtime[i].change)] :
       i \in 1 .. Len(group.realtime)}
    \cup {[od |-> group.deferred[i].od,
           d |-> GenerateSnapshotObjectData(
                   group.deferred[i].od.vars, "FORCE_NODE_PATH_ONLY",
                   NoChange)] :
            i \in {j \in 1 .. Len(group.deferred) :
                     /\ group.deferred_list_changed \/ full
                     /\ group.deferred[j].unknown \/ full}}

\* The record's net id is not known to the client, and the record names
\* an object the host resolves.
UnknownButNamed(rec) ==
    /\ GetObjectData(c_objects, rec.od.net_id) = ""
    /\ rec.d.has_name
    /\ rec.od.object_name \in scene

\* C18: when a client receives a snapshot with an object record whose net
\* id it does not know and whose name the host resolves, the host resolver
\* is called with the name, the object is registered with exactly that net
\* id and the record's values are stored for it; when every record of the
\* snapshot is either such a record or of a known net id, no
\* notify_need_full_snapshot request is sent.
C18_UnknownIdResolvedByName ==
    [][(last_call'.op = "receive_snapshot" /\ rx'.cut = 0)
          => LET recs == Carried(rx'.full, rx'.group)
             IN /\ \A rec \in recs :
                     UnknownButNamed(rec)
                       => /\ \E i \in 1 .. Len(log') :
                                log'[i] = Event("fetch_app_object",
                                                rec.od.object_name, 0, 0, 0)
                          /\ c_objects'[rec.od.object_name].registered
                          /\ c_objects'[rec.od.object_name].net_id =
                               rec.od.net_id
                          /\ \A v \in 1 .. Len(rec.od.vars) :
                                rec.d.vars[v].has_value
                                  => HoldsValue(last_received_snapshot',
                                                rec.od, v)
                /\ ((\E rec \in recs : UnknownButNamed(rec))
                    /\ \A rec \in recs :
                          \/ UnknownButNamed(rec)
                          \/ GetObjectData(c_objects, rec.od.net_id) # "")
                     => ~Logged(log', "rpc_notify_need_full_snapshot")]_vars

\* A delta snapshot that names Y, whose net id the client did not know,
\* was received: Y was resolved, has its net id, c's value is stored, and
\* no request was sent.
C18_Witness ==
    /\ last_call.op = "receive_snapshot"
    /\ rx.cut = 0
    /\ ~rx.full
    /\ log = <<Event("fetch_app_object", "Y", 0, 0, 0)>>
    /\ c_objects["Y"].registered
    /\ c_objects["Y"].net_id = NetIdOf["Y"]
    /\ HoldsValue(last_received_snapshot, rx.group.realtime[1].od, 1)
    /\ rx.group.realtime[1].od.object_name = "Y"
    /\ ~need_full_snapshot_notified

\* The name the client has for a record: the one the record carries, or
\* the one of the net-id-to-name table; "" for none.
RecordName(rec) ==
    IF rec.d.has_name THEN rec.od.object_name
    ELSE NameAt(objects_names, rec.od.net_id)

\* The record's net id has no registered object and the object cannot be
\* resolved: no name is known, or the host has no object of that name.
Unresolvable(rec) ==
    /\ GetObjectData(c_objects, rec.od.net_id) = ""
    /\ RecordName(rec) = "" \/ RecordName(rec) \notin scene

\* C19: when a client receives a snapshot with a record whose net id has no
\* registered object and whose object cannot be resolved, the parse goes on
\* to the end, the object stays unregistered, the records of the other
\* objects are stored, and a notify_need_full_snapshot request is sent.
C19_UnresolvableIsSkippedAndRequested ==
    [][(last_call'.op = "receive_snapshot" /\ rx'.cut = 0)
          => LET recs == Carried(rx'.full, rx'.group)
             IN \A rec \in recs :
                   Unresolvable(rec)
                     => /\ rx'.success
                        /\ c_objects'[rec.od.object_name] =
                             c_objects[rec.od.object_name]
                        /\ \A other \in recs \ {rec} :
                              ~Unresolvable(other)
                                => \A v \in 1 .. Len(other.od.vars) :
                                      other.d.vars[v].has_value
                                        => HoldsValue(last_received_snapshot',
                                                      other.od, v)
                        /\ Logged(log', "rpc_notify_need_full_snapshot")]_vars

\* C20: when the parse of a received snapshot fails, receive_snapshot
\* leaves last_received_snapshot, server_snapshots, the enabled and
\* want_to_enable flags, the net-id-to-name table and the registered
\* objects with their net ids as they were before the call.
C20_FailedParseCommitsNothing ==
    [][(last_call'.op = "receive_snapshot" /\ ~rx'.success)
          => /\ last_received_snapshot' = last_received_snapshot
             /\ server_snapshots' = server_snapshots
             /\ enabled' = enabled
             /\ want_to_enable' = want_to_enable
             /\ objects_names' = objects_names
             /\ c_objects' = c_objects]_vars

\* ------------------------------------------------ claims on the id search
CanProcess(sub_ticks) ==
    /\ player_controller_node_data \/ sub_ticks = 0
    /\ input_buffers_counter + sub_ticks <= MaxInputId + 1

IdSet(q) == {q[i].input_id : i \in 1 .. Len(q)}

\* Both queues hold something and the newest server snapshot has an id.
Searches(st) ==
    /\ st.server # <<>>
    /\ st.client # <<>>
    /\ st.server[Len(st.server)].input_id # UINT32_MAX

CommonIds(st) == IdSet(st.server) \cap IdSet(st.client)

\* C25: with both queues non-empty and an input id on the newest server
\* snapshot, process_received_server_state selects the largest input id
\* the two queues share and leaves no entry of a smaller id in either
\* queue; when they share no id it returns with both queues, the
\* variables and last_checked_input as they were.
C25_SearchSelectsLargestCommonId ==
    \A sub_ticks \in 0 .. MaxSubTicks :
      CanProcess(sub_ticks) =>
        LET st == Simulated(sub_ticks)
            out == ProcessReceivedServerState(st)
        IN Searches(st) =>
             IF CommonIds(st) = {}
             THEN /\ out.server = st.server
                  /\ out.client = st.client
                  /\ out.v = st.v
                  /\ out.w = st.w
                  /\ out.last_checked = st.last_checked
                  /\ out.log = st.log
             ELSE /\ out.recon.kind = "checked"
                  /\ out.recon.k = SetMax(CommonIds(st))
                  /\ out.last_checked = out.recon.k
                  /\ \A i \in 1 .. Len(out.client) :
                       out.client[i].input_id >= out.recon.k
                  /\ \A i \in 1 .. Len(out.server) :
                       out.server[i].input_id >= out.recon.k

\* C25's case: the search finds an id and the client queue holds an older
\* entry.
C25_Witness ==
    \E sub_ticks \in 0 .. MaxSubTicks :
      /\ CanProcess(sub_ticks)
      /\ Searches(Simulated(sub_ticks))
      /\ CommonIds(Simulated(sub_ticks)) # {}
      /\ Simulated(sub_ticks).client[1].input_id
           < SetMax(CommonIds(Simulated(sub_ticks)))

\* The other case of C25: the queues share no id.
C25_NoCommonId ==
    \E sub_ticks \in 0 .. MaxSubTicks :
      /\ CanProcess(sub_ticks)
      /\ Searches(Simulated(sub_ticks))
      /\ CommonIds(Simulated(sub_ticks)) = {}
      /\ val_v # 0

\* ------------------------------------- claims on snapshots without input id
NewestHasNoInputId ==
    /\ server_snapshots # <<>>
    /\ server_snapshots[Len(server_snapshots)].input_id = UINT32_MAX

\* A process() that finds a snapshot without input id at the back of the
\* server queue: it is applied under SYNC_RECOVER alone, both queues end
\* empty, and neither state_validated nor rewind_frame_begin is emitted.
NoInputIdTick ==
    (NewestHasNoInputId /\ last_call'.op = "process") =>
      LET newest == server_snapshots[Len(server_snapshots)]
      IN /\ \E p \in 1 .. Len(log') :
              /\ log'[p] = Event("apply", UINT32_MAX, newest.v, newest.w,
                                 {SYNC_RECOVER})
              /\ \A q \in 1 .. Len(log') : log'[q].e = "apply" => q = p
         /\ \A p \in 1 .. Len(log') :
              /\ log'[p].e \notin {"state_validated", "rewind_frame_begin"}
              /\ log'[p].e = "set_variable" => log'[p].flag = {SYNC_RECOVER}
         /\ val_v' = (IF newest.v = NoVal THEN val_v ELSE newest.v)
         /\ val_w' = (IF newest.w = NoVal THEN val_w ELSE newest.w)
         /\ server_snapshots' = <<>>
         /\ client_snapshots' = <<>>

\* A snapshot without input id that arrives while the player controller
\* exists leaves the server queue as it was.
NoInputIdNotQueued ==
    (/\ last_call'.op = "receive_snapshot"
     /\ last_call'.a = UINT32_MAX
     /\ player_controller_node_data)
      => server_snapshots' = server_snapshots

\* C26: a server snapshot without input id at the back of the queue is
\* applied in the tick that finds it, under SYNC_RECOVER only, both queues
\* are emptied and no state_validated or rewind_frame_begin is emitted;
\* and such a snapshot is never queued while a local player controller
\* exists.
C26_NoInputIdAppliedAtOnce ==
    [][/\ NoInputIdTick
       /\ NoInputIdNotQueued
       /\ player_controller_node_data'
            => \A i \in 1 .. Len(server_snapshots') :
                 server_snapshots'[i].input_id # UINT32_MAX]_vars

\* C26's case: a tick applied a snapshot without input id and it changed a
\* variable.
C26_Witness ==
    /\ last_call.op = "process"
    /\ recon.kind = "no_input"
    /\ Len(log) >= 2
    /\ log[2].e = "set_variable"
    /\ log[2].flag = {SYNC_RECOVER}
    /\ server_snapshots = <<>>

\* The other case of C26: a snapshot without input id was refused because
\* of the player controller.
C26_Refused ==
    /\ last_call.op = "receive_snapshot"
    /\ last_call.a = UINT32_MAX
    /\ player_controller_node_data
    /\ server_snapshots # <<>>

\* ------------------------------------------------ claims on soft divergence
\* The reconciliation found the snapshots of the matched id equal in v and
\* different in w, the variable that skips rewinding.
SoftDivergence(rec) ==
    /\ rec.kind = "checked"
    /\ CompareIsEqual(rec.server, rec.client)
    /\ rec.server.w # NoVal
    /\ rec.server.w # rec.client.w

EventsOf(events, e) == SelectSeq(events, LAMBDA ev : ev.e = e)

NewerThan(q, k) == SelectSeq(q, LAMBDA snap : snap.input_id > k)

\* What C27 says of one process_received_server_state, from st to out.
SoftTick(st, out) ==
    LET k == out.recon.k
        kept == NewerThan(st.client, k)
        n == Len(kept)
    IN /\ EventsOf(out.log, "apply") =
            <<Event("apply", 0, NoVal, out.recon.server.w, {SYNC_RECOVER})>>
       /\ \A p \in 1 .. Len(out.log) :
            /\ out.log[p].e \notin {"process", "rewind_frame_begin",
                                    "snapshot_set_custom_data"}
            /\ out.log[p].e = "set_variable"
                 => /\ out.log[p].flag = {SYNC_RECOVER}
                    /\ out.log[p].a = 1
       /\ EventsOf(out.log, "state_validated") =
            <<Event("state_validated", k, 0, 0, {})>>
       /\ out.v = st.v
       /\ out.w = out.recon.server.w
       /\ Len(out.client) = n
       /\ \A i \in 1 .. n :
            out.client[i] = IF i = n THEN Snap(kept[n].input_id, out.v, out.w)
                            ELSE kept[i]

\* C27: on a soft divergence the client applies the partial correction
\* under SYNC_RECOVER alone, runs no process callback, emits no
\* rewind_frame_begin, gives no custom data to snapshot_set_custom_data,
\* emits state_validated for the matched id and refreshes the newest client
\* snapshot only.
C27_SoftDivergenceRecoversInPlace ==
    \A sub_ticks \in 0 .. MaxSubTicks :
      CanProcess(sub_ticks) =>
        LET st == Simulated(sub_ticks)
            out == ProcessReceivedServerState(st)
        IN SoftDivergence(out.recon)
             => SoftTick([st EXCEPT !.log = <<>>],
                         [out EXCEPT !.log =
                            SubSeq(@, Len(st.log) + 1, Len(@))])

\* C27's case: a tick recovered w in place while two newer client
\* snapshots were queued, the older of which still holds the old w.
C27_Witness ==
    /\ last_call.op = "process"
    /\ SoftDivergence(recon)
    /\ Len(client_snapshots) = 2
    /\ client_snapshots[1].w # val_w
    /\ client_snapshots[2].w = val_w

\* ------------------------------------------- claims on the server's peers
\* The object's controller is the one of a connected peer.
AssignedToPeer(od) ==
    \E peer \in DOMAIN peer_data : peer_data[peer].controller_id = od

\* The objects a sent snapshot lists as active or carries a record of.
Replicated(snap) ==
    IF snap.full THEN snap.active \cup snap.named \cup snap.valued ELSE {}

\* C23: on the server an object whose controller is assigned to no
\* connected peer is not replicated: no snapshot sent lists it as active
\* or carries a record of it.
C23_UnassignedControllerNotReplicated ==
    \A peer \in DOMAIN sent :
      \A od \in Replicated(sent[peer]) :
        od \in DOMAIN controllers => AssignedToPeer(od)

\* What a sent buffer holds after its header.
Payload(snap) == [snap EXCEPT !.input_id = 0]

\* The current input id of the controller of a peer, or none.
OwnInputId(peer) ==
    IF peer_data[peer].controller_id \in DOMAIN controllers
    THEN controllers[peer_data[peer].controller_id].current_input_id
    ELSE UINT32_MAX

C29_DeltaWitness ==
    /\ DOMAIN sent = {2, 3}
    /\ sent[2].group = sent[3].group
    /\ ~sent[2].full /\ ~sent[3].full
    /\ sent[2].input_id # sent[3].input_id

\* The peers process_snapshot_notificator finds in the list of the group.
Subscribed(group) ==
    {group.peers[i] : i \in 1 .. Len(group.peers)} \cap DOMAIN peer_data

\* The timer of the group reaches the interval in the tick that starts.
TimerFires(group) ==
    group.state_notifier_timer + 1 >= NotifyIntervalTicks

\* What C30 says of a tick, for the group of index g.
NotifiedInTick(g) ==
    LET group == sync_groups[g]
    IN Subscribed(group) # {} =>
         /\ \A peer \in Subscribed(group) :
              /\ peer \in DOMAIN sent'
                   <=> (peer_data[peer].force_notify_snapshot
                        \/ TimerFires(group))
              /\ peer \in DOMAIN sent'
                   => ~peer_data'[peer].force_notify_snapshot
              /\ peer \notin DOMAIN sent'
                   => peer_data'[peer].force_notify_snapshot
                        = peer_data[peer].force_notify_snapshot
         /\ sync_groups'[g].state_notifier_timer =
              (IF TimerFires(group) THEN 0
               ELSE group.state_notifier_timer + 1)
         /\ (last_call.op = "force_state_notify" /\ last_call.a = g - 1)
              => Subscribed(group) \subseteq DOMAIN sent'

\* C30: in a tick a peer in the list of a group is sent a snapshot iff its
\* force_notify_snapshot bit is set or the state timer of the group reached
\* server_notify_state_interval; the bit is cleared when the peer is sent
\* one, the timer restarts from 0 when it fires, and the tick that follows
\* force_state_notify(g) sends to every peer of g.
C30_SentIffForcedOrTimer ==
    [][last_call'.op = "process"
         => \A g \in 1 .. Len(sync_groups) : NotifiedInTick(g)]_vars

\* C30's case: the tick after force_state_notify(g) sent the delta
\* snapshot of g to its two peers and the timer of g restarted.
C30_Witness ==
    /\ last_call.op = "process"
    /\ prev_call.op = "force_state_notify"
    /\ DOMAIN sent = {2, 3}
    /\ \A peer \in {2, 3} :
         /\ sent[peer].group = prev_call.a
         /\ ~sent[peer].full
    /\ sync_groups[prev_call.a + 1].state_notifier_timer = 0

\* The other case of C30: one peer of the group was sent a snapshot for
\* its bit, the other was not sent any.
C30_OnlyForced ==
    /\ last_call.op = "process"
    /\ DOMAIN sent = {2}
    /\ \E g \in 1 .. Len(sync_groups) :
         /\ Subscribed(sync_groups[g]) = {2, 3}
         /\ sync_groups[g].state_notifier_timer = 1


\* ---------------------------------------------------------------- C21
\* The positions of the record of the batches at which a flush is.
Flushes(llog) == {f \in 1 .. Len(llog) : llog[f].e = "flush"}

\* The batch flushed at f: the positions after the flush before, up to f.
Batch(llog, f) ==
    {p \in 1 .. f - 1 : \A q \in p .. f - 1 : llog[q].e # "flush"}

\* The listener takes the add: it watches the variable and its mask has
\* something of the batch's flag.
Accepts(listener, add) ==
    /\ add.e = "add"
    /\ Watches(listener, add.a)
    /\ listener.flag \cap add.flag # {}

\* What C21 says of the batch flushed at f.
BatchCalls(llog, listeners, f) ==
    /\ \A p \in Batch(llog, f) :
         llog[p].e = "call"
           => /\ \A q \in p + 1 .. f - 1 : llog[q].e = "call"
              /\ \A q \in Batch(llog, f) :
                   llog[q].e = "call" /\ llog[q].a = llog[p].a => q = p
    /\ \A i \in DOMAIN listeners :
         (\E p \in Batch(llog, f) : llog[p].e = "call" /\ llog[p].a = i)
           <=> (\E p \in Batch(llog, f) : Accepts(listeners[i], llog[p]))

\* C21: in every change batch each listener is invoked at most once, at the
\* flush, and exactly when one of the variables it watches was added to the
\* batch under a flag its mask has; no listener is invoked outside a
\* batch's flush.
C21_ListenerOncePerBatchIfAccepted ==
    /\ \A f \in Flushes(listener_log) :
         BatchCalls(listener_log, changes_listeners, f)
    /\ listener_log # <<>> => listener_log[Len(listener_log)].e = "flush"

\* C21's case: in one tick a listener was invoked in one batch, and in
\* another a variable it watches was added under a flag its mask has not.
C21_Witness ==
    /\ last_call.op = "process"
    /\ \E i \in DOMAIN changes_listeners :
         /\ \E p \in DOMAIN listener_log :
              listener_log[p].e = "call" /\ listener_log[p].a = i
         /\ \E p \in DOMAIN listener_log :
              /\ listener_log[p].e = "add"
              /\ Watches(changes_listeners[i], listener_log[p].a)
              /\ changes_listeners[i].flag \cap listener_log[p].flag = {}


\* ---------------------------------------------------------------- C22
\* The adds of the variable in the batch flushed at f.
AddsOf(llog, f, var_id) ==
    {p \in Batch(llog, f) : llog[p].e = "add" /\ llog[p].a = var_id}

\* The value C22 expects in a slot of the variable at the flush at f: the
\* old value of the first add of the batch, the current value without one.
ExpectedOld(llog, f, var_id) ==
    IF AddsOf(llog, f, var_id) # {}
    THEN llog[SetMin(AddsOf(llog, f, var_id))].b
    ELSE IF var_id = 0 THEN llog[f].a ELSE llog[f].b

\* C22: a listener invoked at a flush is given one value per watched
\* variable, in watched order: the value the variable had before the batch
\* when it changed in the batch (the old value given to change_event_add),
\* its current value when it did not.
C22_ListenerGetsOldValues ==
    \A f \in Flushes(listener_log) :
      \A p \in Batch(listener_log, f) :
        listener_log[p].e = "call"
          => LET watching_vars ==
                   changes_listeners[listener_log[p].a].watching_vars
             IN /\ DOMAIN listener_log[p].b = DOMAIN watching_vars
                /\ \A v \in DOMAIN watching_vars :
                     listener_log[p].b[v] =
                       ExpectedOld(listener_log, f, watching_vars[v])


\* ---------------------------------------------------------------- C28
\* The positions of the adds of the variable made under a SYNC_* flag.
SyncAdds(llog, var_id) ==
    {p \in 1 .. Len(llog) :
       llog[p].e = "add" /\ llog[p].a = var_id /\ llog[p].flag \cap SYNC # {}}

\* The positions of the adds of the variable made under END_SYNC.
EndSyncAdds(llog, var_id) ==
    {p \in 1 .. Len(llog) :
       llog[p].e = "add" /\ llog[p].a = var_id /\ llog[p].flag = {END_SYNC}}

\* The variable was changed while syncing and ends the tick with a value
\* other than the one it had before the first such change.
SyncChanged(llog, var_id, value) ==
    /\ SyncAdds(llog, var_id) # {}
    /\ llog[SetMin(SyncAdds(llog, var_id))].b # value

\* The END_SYNC batch begins at b: it is the last batch of the tick, a batch
\* of its own that follows every other.
EndSyncBatchAt(llog, b) ==
    /\ llog[b] = LEvent("begin", 0, 0, {END_SYNC})
    /\ b = 1 \/ llog[b - 1].e = "flush"
    /\ \A p \in 1 .. b - 1 : END_SYNC \notin llog[p].flag
    /\ \A p \in b .. Len(llog) : llog[p].flag = {END_SYNC}
    /\ \A p \in b .. Len(llog) : llog[p].e = "flush" <=> p = Len(llog)

\* C28: every client tick ends with the END_SYNC batch, a batch of its own
\* after the repair batches; a variable is added to it, and the listeners
\* that accept END_SYNC and watch it are invoked, exactly when the variable
\* was changed under a SYNC_* flag in the tick and its value after the
\* repair differs from the one before the first such change; the recorded
\* set is empty afterwards.
C28_EndSyncAfterRepair ==
    last_call.op = "process" =>
      /\ \E b \in 1 .. Len(listener_log) : EndSyncBatchAt(listener_log, b)
      /\ EndSyncAdds(listener_log, 0) # {}
           <=> SyncChanged(listener_log, 0, val_v)
      /\ EndSyncAdds(listener_log, 1) # {}
           <=> SyncChanged(listener_log, 1, val_w)
      /\ \A i \in DOMAIN changes_listeners :
           END_SYNC \in changes_listeners[i].flag
             => ((\E p \in 1 .. Len(listener_log) :
                    /\ listener_log[p].e = "call"
                    /\ listener_log[p].a = i
                    /\ listener_log[p].flag = {END_SYNC})
                 <=> \/ /\ Watches(changes_listeners[i], 0)
                        /\ SyncChanged(listener_log, 0, val_v)
                     \/ /\ Watches(changes_listeners[i], 1)
                        /\ SyncChanged(listener_log, 1, val_w))
      /\ sync_end_events = <<>>

\* C28's case: in one tick w was recovered, and a listener that accepts
\* END_SYNC was invoked for it, while v was resimulated back to the value it
\* had before the repair and was not added to the END_SYNC batch.
C28_Witness ==
    /\ last_call.op = "process"
    /\ SyncAdds(listener_log, 0) # {}
    /\ ~SyncChanged(listener_log, 0, val_v)
    /\ EndSyncAdds(listener_log, 0) = {}
    /\ SyncChanged(listener_log, 1, val_w)
    /\ \E p \in 1 .. Len(listener_log) :
         listener_log[p].e = "call" /\ listener_log[p].flag = {END_SYNC}


\* ---------------------------------------------------------------- C24
\* The packet of the step is a second packet for the stream: the object's
\* data was collected and the packet's epoch is after the stream's.
SecondPacket ==
    /\ last_call'.op = "receive_deferred_sync_data"
    /\ last_call'.b = 1
    /\ deferred_sync_array # <<>>
    /\ deferred_sync_array[1].future_epoch < last_call'.a

\* A tick of a client that holds the stream of the object.
DeferredTick == last_call'.op = "process" /\ deferred_sync_array # <<>>

\* C24: a packet of the epoch e2 for a stream whose last epoch is e1 < e2
\* puts alpha to 0 and the step to 1 / (e2 - e1).  A tick invokes apply_epoch
\* once, with alpha advanced by one step, which is then the stream's alpha
\* and not below the one before; except that when alpha is above 1.2 the
\* tick does not invoke apply_epoch and leaves the stream as it is, so that
\* only a packet ends the idling.
C24_AlphaAdvancesThenIdles ==
    [][/\ SecondPacket =>
            deferred_sync_array'[1].alpha =
              Alpha(0, last_call'.a - deferred_sync_array[1].future_epoch)
       /\ DeferredTick =>
            IF AlphaExceeds(deferred_sync_array[1].alpha, real_t_is_double)
            THEN /\ epoch_calls' = <<>>
                 /\ deferred_sync_array' = deferred_sync_array
            ELSE /\ Len(epoch_calls') = 1
                 /\ epoch_calls'[1].alpha =
                      Alpha(deferred_sync_array[1].alpha.num + 1,
                            deferred_sync_array[1].alpha.den)
                 /\ deferred_sync_array'[1].alpha = epoch_calls'[1].alpha
                 /\ deferred_sync_array'[1].alpha.num
                      >= deferred_sync_array[1].alpha.num]_vars

\* C24's case: after packets at the epochs 1 and 3 the ticks advanced alpha
\* to 1.5, and the last tick invoked nothing.
C24_Witness ==
    /\ last_call.op = "process"
    /\ epoch_calls = <<>>
    /\ deferred_sync_array # <<>>
    /\ deferred_sync_array[1].past_epoch = 1
    /\ deferred_sync_array[1].future_epoch = 3
    /\ deferred_sync_array[1].alpha = Alpha(3, 2)

\* The tick before: apply_epoch is invoked with alpha = 1.
C24_Advancing ==
    /\ last_call.op = "process"
    /\ deferred_sync_array # <<>>
    /\ deferred_sync_array[1].past_epoch = 1
    /\ deferred_sync_array[1].future_epoch = 3
    /\ Len(epoch_calls) = 1
    /\ epoch_calls[1].alpha = Alpha(2, 2)


\* ---------------------------------------------------------------- C31
RECURSIVE ActiveListEnd(_, _)
\* The position of the end mark of the list of ids that starts at p.
ActiveListEnd(buf, p) ==
    IF buf[p] = ObjectNetId_NONE THEN p ELSE ActiveListEnd(buf, p + 1)

\* Whether the buffer starts with the list of the active objects, the list
\* and the position of the first object record (after the custom data flag).
HasActiveList(buf) == buf[1]
ActiveList(buf) ==
    IF buf[1] THEN SubSeq(buf, 2, ActiveListEnd(buf, 2) - 1) ELSE <<>>
RecordsStart(buf) == IF buf[1] THEN ActiveListEnd(buf, 2) + 2 ELSE 3

RECURSIVE ReadSlots(_, _, _)
\* The n has-value slots written from p on, and the position after them.
ReadSlots(buf, p, n) ==
    IF n = 0 THEN [slots |-> <<>>, pos |-> p]
    ELSE With(ReadSlots(buf, IF buf[p] THEN p + 2 ELSE p + 1, n - 1),
              LAMBDA r :
                [slots |-> <<[has_value |-> buf[p],
                              value |-> IF buf[p] THEN buf[p + 1]
                                        ELSE NoVal]>> \o r.slots,
                 pos |-> r.pos])

RECURSIVE ReadRecords(_, _)
\* The object records written from p on, up to the end mark.
ReadRecords(buf, p) ==
    IF buf[p] = ObjectNetId_NONE THEN <<>>
    ELSE With(ReadSlots(buf, (IF buf[p + 1] THEN p + 4 ELSE p + 3),
                        buf[IF buf[p + 1] THEN p + 3 ELSE p + 2]),
              LAMBDA r :
                <<[net_id |-> buf[p], has_name |-> buf[p + 1],
                   name |-> IF buf[p + 1] THEN buf[p + 2] ELSE "",
                   slots |-> r.slots]>> \o ReadRecords(buf, r.pos))

\* The records of the generated snapshot, and those of one object.
GeneratedRecords == ReadRecords(rx.snapshot, RecordsStart(rx.snapshot))
RecordsOf(recs, od) == SelectSeq(recs, LAMBDA r : r.net_id = od.net_id)

\* The full snapshot holds the list of the realtime objects and, for each
\* of them, one record with its name and the value of every enabled
\* variable.
FullContents(recs) ==
    /\ HasActiveList(rx.snapshot)
    /\ ActiveList(rx.snapshot) =
         [i \in 1 .. Len(rx.group.realtime) |->
            rx.group.realtime[i].od.net_id]
    /\ \A i \in 1 .. Len(rx.group.realtime) :
         LET od == rx.group.realtime[i].od
             mine == RecordsOf(recs, od)
         IN /\ Len(mine) = 1
            /\ mine[1].has_name
            /\ mine[1].name = od.object_name
            /\ Len(mine[1].slots) = Len(od.vars)
            /\ \A v \in 1 .. Len(od.vars) :
                 /\ mine[1].slots[v].has_value = od.vars[v].enabled
                 /\ od.vars[v].enabled
                      => mine[1].slots[v].value = od.vars[v].value

\* The delta snapshot holds no value of a variable that is disabled or did
\* not change since the last checkpoint.
DeltaContents(recs) ==
    \A i \in 1 .. Len(rx.group.realtime) :
      LET od == rx.group.realtime[i].od
          mine == RecordsOf(recs, od)
      IN /\ Len(mine) = 1
         /\ Len(mine[1].slots) = Len(od.vars)
         /\ \A v \in 1 .. Len(od.vars) :
              (~od.vars[v].enabled
                 \/ od.vars[v].name \notin rx.group.realtime[i].change.vars)
                => ~mine[1].slots[v].has_value

\* The record of a deferred object holds no value.
NodePathOnly(recs) ==
    \A j \in 1 .. Len(rx.group.deferred) :
      LET mine == RecordsOf(recs, rx.group.deferred[j].od)
      IN \A k \in 1 .. Len(mine) :
           /\ mine[k].has_name
           /\ \A v \in 1 .. Len(mine[k].slots) : ~mine[k].slots[v].has_value

\* C31, but for the list of a delta: a full snapshot holds the list of the
\* active objects and, for every realtime object, its name and a value for
\* every enabled variable; a delta snapshot holds no value for a variable
\* that is unchanged or disabled, and holds the list of the active objects
\* exactly when the group's realtime list changed since the last
\* notification; the record of a deferred object holds no value.
C31_SnapshotContents ==
    rx.kind = "generated" =>
      /\ rx.full => FullContents(GeneratedRecords)
      /\ ~rx.full => /\ DeltaContents(GeneratedRecords)
                     /\ HasActiveList(rx.snapshot)
                          = rx.group.realtime_list_changed
      /\ NodePathOnly(GeneratedRecords)

\* C31 as stated: no delta snapshot holds the list of the active objects.
C31_DeltaWithoutActiveList ==
    rx.kind = "generated" =>
      /\ rx.full => FullContents(GeneratedRecords)
      /\ ~rx.full => /\ DeltaContents(GeneratedRecords)
                     /\ ~HasActiveList(rx.snapshot)
      /\ NodePathOnly(GeneratedRecords)

\* C31's case: a delta of a group whose realtime list changed, in which one
\* variable of X changed and the other did not, with Y as deferred object
\* new to the clients.
C31_Witness ==
    /\ rx.kind = "generated"
    /\ ~rx.full
    /\ rx.group.realtime_list_changed
    /\ rx.group.deferred_list_changed
    /\ Len(rx.group.deferred) = 1
    /\ rx.group.deferred[1].unknown
    /\ Len(GeneratedRecords) = 2
    /\ rx.group.realtime[1].change.vars = {"a"}
    /\ GeneratedRecords[2].slots[1].has_value
    /\ ~GeneratedRecords[2].slots[2].has_value

\* A full snapshot of X and the deferred Y.
C31_FullWitness ==
    /\ rx.kind = "generated"
    /\ rx.full
    /\ Len(rx.group.deferred) = 1
    /\ Len(GeneratedRecords) = 2
    /\ GeneratedRecords[2].slots[1].has_value

\* ------------------------------------------------ change records and sends
\* The change record of the object with the variables the process found
\* changed added to it.
ChangeAfterPull ==
    [od_change EXCEPT !.vars =
       od_change.vars \cup
         {od_vars[i].name : i \in PullNodeChanges(od_vars, host).changed}]

ServerProcessed ==
    last_call'.op = "process" /\ synchronizer_type = "SERVER"

\* C32: a server tick resets the change records of a group (the object
\* known, its changed-variable set empty) exactly when the group's state
\* interval elapsed in that tick, whether the snapshot sent was full or a
\* delta; a full snapshot forced between two state intervals leaves the
\* records as they were, with the tick's own changes added.
C32_ChangesResetAtStateInterval ==
    [][ServerProcessed =>
         IF last_call'.c = 1
         THEN od_change' = NoChange
         ELSE od_change' = ChangeAfterPull]_<<last_call.op, vars>>

\* C32 as stated: whenever a full snapshot is sent the change records are
\* reset in the same tick, a forced one between two state intervals
\* included.
C32_FullSnapshotResetsChanges ==
    [][(ServerProcessed /\ last_call'.a = "sent" /\ last_call'.b = 1)
         => od_change' = NoChange]_<<last_call.op, vars>>

\* A full snapshot that carried a value went out in a tick of the state
\* interval and the record is reset.
C32_Witness ==
    /\ last_call.op = "process" /\ synchronizer_type = "SERVER"
    /\ last_call.a = "sent" /\ last_call.b = 1 /\ last_call.c = 1
    /\ \E i \in 1 .. Len(object_record) : object_record[i].has_value
    /\ od_change = NoChange

\* A full snapshot was forced between two state intervals and the record
\* still holds a changed variable.
C32_ForcedWitness ==
    /\ last_call.op = "process" /\ synchronizer_type = "SERVER"
    /\ last_call.a = "sent" /\ last_call.b = 1 /\ last_call.c = 0
    /\ od_change.vars # {}

\* ------------------------------------------------- the declared count
\* C33: for every object record the declared variable count equals the
\* object's slot count, and the client's read of the record, of an object
\* it knows with any number of registered variables or of one it does not
\* know, ends without a failed read at the end of the record, where the
\* next record starts.
C33_DeclaredCountIsConsumed ==
    rx.kind = "record"
      => /\ rx.declared = rx.slots
         /\ ~rx.failed
         /\ rx.read_end = Len(rx.record)

\* ------------------------------------------------ the deferred sync tick
StreamTick == last_call'.op = "process_deferred_sync"

HasSubscribers == Len(sync_groups[1].peers) > 0

DeferredIds ==
    {sync_groups[1].deferred[i].od.net_id :
       i \in 1 .. Len(sync_groups[1].deferred)}

\* The DeferredNodeInfo of the object before and after the tick.
PreInfo(n) ==
    LET i == CHOOSE i \in 1 .. Len(sync_groups[1].deferred) :
                sync_groups[1].deferred[i].od.net_id = n
    IN sync_groups[1].deferred[i]

PostInfo(n) ==
    LET i == CHOOSE i \in 1 .. Len(sync_groups'[1].deferred) :
                sync_groups'[1].deferred[i].od.net_id = n
    IN sync_groups'[1].deferred[i]

\* The net ids of the packet the tick sent, in the packet's order.
PacketNodes == IF sent' = <<>> THEN <<>> ELSE sent'[sync_groups[1].peers[1]]

SentIds == {PacketNodes[i] : i \in 1 .. Len(PacketNodes)}

\* The object is in the packet, its priority was at least 1 and is 0.
SentAndReset(n) ==
    /\ n \in SentIds
    /\ PreInfo(n).update_priority >= PriorityOne
    /\ PostInfo(n).update_priority = 0

\* The object is not in the packet and its priority grew by its rate.
NotSentAndRaised(n) ==
    /\ n \notin SentIds
    /\ PostInfo(n).update_priority =
         PreInfo(n).update_priority + PreInfo(n).update_rate

\* The collect of the object failed: it is not in the packet and its
\* priority, which was at least 1, is 0.
DroppedAndReset(n) ==
    /\ n \in last_call'.b
    /\ n \notin SentIds
    /\ PreInfo(n).update_priority >= PriorityOne
    /\ PostInfo(n).update_priority = 0

\* The cap, the order and the packet of a tick of a subscribed group: at
\* most max_deferred_nodes_per_update objects in the packet, each once,
\* the higher priority first; an object that could have been collected
\* and was not had no higher priority than the collected ones, and the
\* cap was reached; a peer is sent the packet when it holds an object.
CapOrderAndPacket ==
    /\ Len(PacketNodes) <= last_call'.a
    /\ \A i, j \in 1 .. Len(PacketNodes) :
          i < j => /\ PacketNodes[i] # PacketNodes[j]
                   /\ PreInfo(PacketNodes[i]).update_priority
                        >= PreInfo(PacketNodes[j]).update_priority
    /\ \A n \in DeferredIds \ (SentIds \cup last_call'.b) :
          DeferredSend(PreInfo(n), 0, 1)
            => /\ Len(PacketNodes) = last_call'.a
               /\ \A m \in SentIds : PreInfo(m).update_priority
                                        >= PreInfo(n).update_priority
    /\ sent' # <<>> => PacketNodes # <<>>
    /\ DOMAIN sent' \subseteq {sync_groups[1].peers[i] :
                                 i \in 1 .. Len(sync_groups[1].peers)}

\* C34: in a tick of a group that has subscribers every deferred object is
\* sent with a priority of at least 1 that is reset to 0, or is not sent
\* and has its priority raised by its update_rate, or was selected but its
\* collect failed (the call, or more than UINT16_MAX bits) and is not sent
\* with its priority reset to 0; at most max_deferred_nodes_per_update
\* objects are sent, in decreasing priority order, and a packet is sent
\* only when it holds an object.  A group without subscribers is left as
\* it is.
C34_DeferredTick ==
    [][StreamTick =>
         IF HasSubscribers
         THEN /\ \A n \in DeferredIds :
                    \/ SentAndReset(n) /\ n \notin last_call'.b
                    \/ DroppedAndReset(n)
                    \/ NotSentAndRaised(n)
              /\ CapOrderAndPacket
         ELSE sync_groups' = sync_groups /\ sent' = <<>>]_<<last_call.op, vars>>

\* C34 as stated: every deferred object of a subscribed group is either
\* sent and reset, or has its priority raised by its update_rate.
C34_SentOrRaised ==
    [][(StreamTick /\ HasSubscribers)
         => /\ \A n \in DeferredIds : SentAndReset(n) \/ NotSentAndRaised(n)
            /\ CapOrderAndPacket]_<<last_call.op, vars>>

\* A tick sent the most objects it may and raised the priority of another.
C34_Witness ==
    /\ last_call.op = "process_deferred_sync"
    /\ sent # <<>>
    /\ Len(sent[2]) = last_call.a
    /\ \E i \in 1 .. Len(sync_groups[1].deferred) :
          /\ sync_groups[1].deferred[i].od.collect_epoch_func
          /\ sync_groups[1].deferred[i].od.net_id <= UINT16_MAX
          /\ sync_groups[1].deferred[i].update_priority >= PriorityOne

\* A tick sent a packet and dropped an object whose collect failed.
C34_DroppedWitness ==
    /\ last_call.op = "process_deferred_sync"
    /\ sent # <<>>
    /\ \E i \in 1 .. Len(sync_groups[1].deferred) :
          /\ sync_groups[1].deferred[i].od.net_id \in last_call.b
          /\ sync_groups[1].deferred[i].update_priority = 0
          /\ \A k \in 1 .. Len(sent[2]) :
                sent[2][k] # sync_groups[1].deferred[i].od.net_id

\* ------------------------------------------------------------- the roles
ResetWithManager ==
    last_call'.op = "reset_controller" /\ last_call'.b = TRUE

\* C35: after reset_controller with a synchronizer manager set the role of
\* the controller is NoNet when the local peer is not networked, else on
\* the server AutonomousServer when server_controlled and Server when not,
\* else Player when the local peer is the authority of the unit and the
\* controller is not server_controlled, else Doll; it is never NULL, and a
\* server_controlled controller is a Doll on a client.
C35_RoleIsFunctionOfPeerAndBit ==
    [][ResetWithManager =>
         LET net == last_call'.c
             server_controlled == controllers[last_call'.a].server_controlled
             role == controllers'[last_call'.a].controller_type
         IN /\ ~net.networked => role = "NONETWORK"
            /\ (net.networked /\ net.server /\ server_controlled)
                 => role = "AUTONOMOUS_SERVER"
            /\ (net.networked /\ net.server /\ ~server_controlled)
                 => role = "SERVER"
            /\ (net.networked /\ ~net.server /\ net.authority
                 /\ ~server_controlled) => role = "PLAYER"
            /\ (net.networked /\ ~net.server
                 /\ ~(net.authority /\ ~server_controlled))
                 => role = "DOLL"
            /\ role # "NULL"
            /\ (net.networked /\ ~net.server /\ server_controlled)
                 => role = "DOLL"
            /\ controllers'[last_call'.a].controller
            /\ controllers'[last_call'.a].server_controlled
                 = server_controlled]_<<last_call.op, vars>>

\* A server_controlled controller of which the local peer, a client, is
\* the authority was reset to a Doll.
C35_Witness ==
    /\ last_call.op = "reset_controller"
    /\ last_call.b = TRUE
    /\ last_call.c = [networked |-> TRUE, server |-> FALSE,
                      authority |-> TRUE]
    /\ controllers[last_call.a].server_controlled
    /\ controllers[last_call.a].controller_type = "DOLL"

\* --------------------------------------------------- the queue is drained
\* A server snapshot for an input older than the newest one of the player
\* is queued.
Pending ==
    /\ player_controller_node_data
    /\ server_snapshots # <<>>
    /\ BackInputId # UINT32_MAX
    /\ BackInputId < NewestInput

\* C36: on a client with a player controller whose frames keep coming and
\* which keeps receiving snapshots with non-decreasing input ids, a queued
\* server snapshot for an input older than the newest one is eventually
\* consumed: the queue is emptied or holds a later snapshot.
C36_QueuedSnapshotConsumed == Pending ~> ~Pending

\* ------------------------------------------------------ disabled peers
\* C37: on the server a connected peer whose networking is disabled is in
\* the peers list of no sync group and the last process sent it nothing,
\* whatever operations were called since it was disabled.
C37_DisabledPeerIsUnsubscribed ==
    \A peer \in DOMAIN peer_data :
       ~peer_data[peer].enabled
         => /\ \A g \in 1 .. Len(sync_groups) :
                  \A i \in 1 .. Len(sync_groups[g].peers) :
                     sync_groups[g].peers[i] # peer
            /\ peer \notin DOMAIN sent

\* ------------------------------------------------------------------ C38
\* Every object a listener's watching_vars points to is registered.
ListenersReferenceRegistered ==
    \A l \in DOMAIN changes_listeners :
      \A v \in DOMAIN changes_listeners[l].watching_vars :
        changes_listeners[l].watching_vars[v].node_data \in objects

\* Every read the last change_events_flush made for a listener it called
\* was of an object that is registered.
FlushReadsRegistered ==
    last_call.op = "process" =>
      \A l \in DOMAIN listener_log :
        \A v \in DOMAIN listener_log[l].reads :
          listener_log[l].reads[v] \in objects

\* C38: once an object is unregistered no ChangesListener references it in
\* its watching_vars, and a later change_events_flush that calls a
\* listener reads only variables of objects that are still registered.
C38_RemovedObjectIsForgotten ==
    ListenersReferenceRegistered /\ FlushReadsRegistered

\* ------------------------------------------------------------------ C39
\* How many times the last operation broadcast the event e.
Broadcasts(e) == Cardinality({i \in DOMAIN log : log[i].e = e})

SetEnabledCalled(p_enabled) ==
    /\ last_call'.op = "set_enabled"
    /\ last_call'.a = (IF p_enabled THEN 1 ELSE 0)

SnapshotReceived == last_call'.op = "receive_snapshot"

\* set_enabled(true) on a disabled client leaves it disabled, and it stays
\* so until a snapshot is received.
EnableIsPostponed ==
    /\ (SetEnabledCalled(TRUE) /\ ~enabled) =>
          (~enabled' /\ want_to_enable' /\ log' = <<>>)
    /\ (~enabled /\ enabled') => (SnapshotReceived /\ want_to_enable)

\* The snapshot received next enables the client and broadcasts
\* event_sync_started once; a snapshot broadcasts it in no other case.
SnapshotEnables ==
    SnapshotReceived =>
      /\ want_to_enable => (enabled' /\ ~want_to_enable')
      /\ Broadcasts("event_sync_started")' = (IF want_to_enable THEN 1 ELSE 0)
      /\ Broadcasts("event_sync_paused")' = 0

\* set_enabled(false) on an enabled client disables it at once and
\* broadcasts event_sync_paused once.
DisableIsImmediate ==
    (SetEnabledCalled(FALSE) /\ enabled) =>
      /\ ~enabled' /\ ~want_to_enable'
      /\ Broadcasts("event_sync_paused")' = 1
      /\ Broadcasts("event_sync_started")' = 0

\* set_enabled(false) leaves no enabling pending.
DisableCancelsPendingEnable ==
    SetEnabledCalled(FALSE) => ~want_to_enable'

\* set_enabled with the value in force changes nothing and broadcasts
\* nothing.
SameValueIsIgnored ==
    \A p_enabled \in BOOLEAN :
      (SetEnabledCalled(p_enabled) /\ enabled = p_enabled
         /\ (want_to_enable => p_enabled)) =>
        (enabled' = enabled /\ want_to_enable' = want_to_enable
           /\ log' = <<>>)

\* C39: on the client set_enabled(true) while disabled enables only when
\* the next server snapshot is received, with event_sync_started broadcast
\* once; set_enabled(false) disables at once, cancels a pending enable and
\* broadcasts event_sync_paused once; a call with the current value changes
\* and broadcasts nothing.
C39_EnableOnSnapshotDisableAtOnce ==
    [][EnableIsPostponed /\ SnapshotEnables /\ DisableIsImmediate
         /\ DisableCancelsPendingEnable /\ SameValueIsIgnored
      ]_<<last_call.op, vars>>

\* ------------------------------------------------------------------ C40
\* None of the four flags is set at the point the event was recorded.
NoFlagSet(ev) ==
    /\ ~ev.recover_in_progress /\ ~ev.reset_in_progress
    /\ ~ev.rewinding_in_progress /\ ~ev.end_sync

\* C40: change_events_begin is never entered with one of
\* recover_in_progress, reset_in_progress, rewinding_in_progress and
\* end_sync set, the four are false after every change_events_flush,
\* is_rewinding() and is_recovered() are true while the process functions
\* of a replayed frame run and false while those of a normal tick run.
C40_BatchesDoNotOverlap ==
    /\ ~recover_in_progress /\ ~reset_in_progress
    /\ ~rewinding_in_progress /\ ~end_sync
    /\ \A p \in DOMAIN flag_log :
         /\ flag_log[p].e \in {"begin", "flush"} => NoFlagSet(flag_log[p])
         /\ flag_log[p].e = "replay" =>
              (flag_log[p].rewinding_in_progress
                 /\ flag_log[p].recover_in_progress)
         /\ flag_log[p].e = "process" =>
              (~flag_log[p].rewinding_in_progress
                 /\ ~flag_log[p].recover_in_progress)

\* A process that ran a tick normally, rewound and replayed a frame, and
\* began a batch after another was flushed.
C40_Witness ==
    /\ \E p \in DOMAIN flag_log : flag_log[p].e = "process"
    /\ \E p \in DOMAIN flag_log : flag_log[p].e = "replay"
    /\ \E p \in DOMAIN flag_log, q \in DOMAIN flag_log :
         p < q /\ flag_log[p].e = "flush" /\ flag_log[q].e = "begin"

====
